---- MODULE Spec2Model ----
(***************************************************************************)
(* Verification model of the trading-simulator core primitives:            *)
(*   - LockFreeQueue<T>   (include/core/lock_free_queue.h)                 *)
(*   - ThreadPool         (include/core/thread_pool.h, src/core/           *)
(*                         thread_pool.cpp)                                *)
(* LockFreeQueue: one producer thread and one consumer thread; every       *)
(* atomic load, store and compare-exchange and every payload access is one *)
(* step.  compare_exchange_weak may fail spuriously.                       *)
(* ThreadPool: the worker threads, the thread that owns the pool and one   *)
(* more submitting thread; taking queue_mutex_ is one step, the critical   *)
(* section up to its release is one step, and every atomic operation made  *)
(* outside the mutex is one step.  condition_.wait may wake spuriously.    *)
(* The move constructor and move assignment of ThreadPool and the          *)
(* num_threads == 0 case of its constructor are not modelled.              *)
(***************************************************************************)
EXTENDS Integers, Sequences, FiniteSets, TLC

(***************************************************************************)
(* Bounds of the model                                                     *)
(***************************************************************************)
\* largest capacity requested from the LockFreeQueue constructor
MaxRequested == 5
\* number of try_push calls made by the producer (each carries a fresh value)
MaxPush == 4
\* largest capacity requested for a queue whose size, full and empty are
\* called
MaxObserved == 2

\* largest number of worker threads a ThreadPool is constructed with
NumWorkers == 2
\* number of submit calls made on the ThreadPool
MaxTasks == 2
\* number of shutdown calls (explicit or from the destructor)
MaxShutdowns == 2

\* payload of a slot that was never written, or was moved from
Unspec == 0

VARIABLES
    \* ---- LockFreeQueue ----
    requested,   \* the constructor argument `capacity`
    capacity_,   \* LockFreeQueue::capacity_
    mask_,       \* LockFreeQueue::mask_ (capacity_ - 1)
    head_,       \* LockFreeQueue::head_  (producer index)
    tail_,       \* LockFreeQueue::tail_  (consumer index)
    seqn,        \* buffer_[i].sequence
    data,        \* buffer_[i].data
    p_pc,        \* producer: position inside try_push
    p_value,     \* producer: argument `value`
    p_head,      \* producer: local `head`
    p_tail,      \* producer: local `tail`
    p_result,    \* producer: what the last try_push returned
    c_pc,        \* consumer: position inside try_pop
    c_tail,      \* consumer: local `tail`
    c_head,      \* consumer: local `head`
    c_value,     \* consumer: the out-parameter `value`
    c_result,    \* consumer: what the last try_pop returned
    nextVal,     \* the value the next try_push call will carry
    pushed,      \* history: values of the try_push calls that returned true
    popped,      \* history: values of the try_pop calls that returned true
    p_alone,     \* history: no consumer step since the current try_push began
    p_snap,      \* history: queue state when the current try_push began
    c_snap,      \* history: queue state when the current try_pop began
    overlapped,  \* history: a try_push and a try_pop have run concurrently
    o_pc,        \* observing thread: the call of size, full or empty it is in
    o_first,     \* observing thread: the index its first load has read
    o_other,     \* history: the other index at the moment of that first load
    o_ret,       \* observing thread: what its call returned
    \* ---- ThreadPool ----
    workers_,        \* ThreadPool::workers_ (the vector of worker threads)
    joinable,        \* the worker threads that have not been joined
    tasks_,          \* ThreadPool::tasks_ (FIFO of queued tasks)
    queue_mutex_,    \* ThreadPool::queue_mutex_: the set holding its owner
    cv_waiters,      \* threads blocked inside condition_.wait
    stop_,           \* ThreadPool::stop_
    active_tasks_,   \* ThreadPool::active_tasks_
    completed_tasks_,\* ThreadPool::completed_tasks_
    wpc,             \* worker: position inside worker_function
    wtask,           \* worker: the local `task` (0 when empty)
    cpc,             \* client thread: position inside the call it is making
    ctask,           \* client thread: the packaged_task of its submit call
    cres,            \* client thread: outcome of its last call
    sd_idx,          \* shutdown: position of the join loop in workers_
    sd_calls,        \* number of shutdown calls made so far
    destroyed,       \* the destructor has run
    nextTask,        \* id of the next task to be created
    submitted,       \* per task: "no", "calling", "accepted" or "rejected"
    throws,          \* per task: the callable throws when it is run
    executed,        \* per task: how many times the callable has been run
    future,          \* per task: shared state of its std::future
    wa_before        \* history: tasks accepted before the current wait_all

qvars == <<requested, capacity_, mask_, head_, tail_, seqn, data,
           p_pc, p_value, p_head, p_tail, p_result,
           c_pc, c_tail, c_head, c_value, c_result,
           nextVal, pushed, popped, p_alone, p_snap, c_snap,
           overlapped>>

tpvars == <<workers_, joinable, tasks_, queue_mutex_, cv_waiters, stop_,
            active_tasks_, completed_tasks_, wpc, wtask, cpc, ctask, cres,
            sd_idx, sd_calls, destroyed, nextTask, submitted, throws,
            executed, future, wa_before>>

VARIABLES
    \* ---- MemoryPool ----
    block_size_,       \* MemoryPool::block_size_ (header, payload and padding)
    chunks_,           \* MemoryPool::chunks_: start address and byte size of each
    free_list_,        \* MemoryPool::free_list_ (address of a Block, 0 is nullptr)
    blk_next,          \* Block::next of every block header written so far
    total_blocks_,     \* MemoryPool::total_blocks_
    allocated_blocks_, \* MemoryPool::allocated_blocks_
    heap_top,          \* the allocator: where make_unique places the next chunk
    mp_pc,             \* per thread: position inside deallocate
    mp_ptr,            \* per thread: the `ptr` of its deallocate call past validation
    mp_initial,        \* history: the constructor argument `initial_blocks`
    outstanding,       \* history: pointers returned by allocate and not yet given back
    ever_returned,     \* history: every pointer allocate has returned
    mp_foreign,        \* history, per thread: mp_ptr was never returned by allocate
    mp_bad,            \* history: deallocate calls whose ptr was not outstanding
    pool_mutex_,       \* MemoryPool::pool_mutex_: the thread that holds it
    mp_num             \* per thread: the `num_blocks` of its reserve call

mpvars == <<block_size_, chunks_, free_list_, blk_next, total_blocks_,
            allocated_blocks_, heap_top, mp_pc, mp_ptr, mp_initial,
            outstanding, ever_returned, mp_foreign, mp_bad, pool_mutex_,
            mp_num>>

VARIABLES
    \* ---- CacheManager ----
    cache_,                \* CacheManager::cache_: key -> CacheEntry
    lru_list_,             \* CacheManager::lru_list_, most recently used first
    max_memory_bytes_,     \* CacheManager::max_memory_bytes_
    current_memory_bytes_, \* CacheManager::current_memory_bytes_
    thread_pool_,          \* CacheManager::thread_pool_ is not null
    cache_mutex_,          \* CacheManager::cache_mutex_ is held
    disk,                  \* cache_dir_: content of <key>.cache for every key
    cm_pc,                 \* the calling thread: position inside its call
    cm_todo,               \* keys the loop of cleanup / preload has yet to handle
    cm_pending,            \* tasks_ of the supplied ThreadPool: queued disk writes
    now,                   \* std::chrono::steady_clock::now(), in hours
    cm_last,               \* history: the operation of the last step and its outcome
    touched,               \* history: cached keys, latest get-hit or put first
    last_put,              \* history: per cached key, the payload of its latest put
    total_requests_,       \* CacheManager::total_requests_
    cache_hits_,           \* CacheManager::cache_hits_
    sched_stop,            \* the supplied ThreadPool was shut down (its stop_)
    disk_ok                \* files of cache_dir_ can be opened for writing

cmvars == <<cache_, lru_list_, max_memory_bytes_, current_memory_bytes_,
            thread_pool_, cache_mutex_, disk, cm_pc, cm_todo, cm_pending,
            now, cm_last, touched, last_put, total_requests_, cache_hits_,
            sched_stop, disk_ok>>

\* the statistics and the surroundings of the cache
cmstats == <<total_requests_, cache_hits_>>
cmenv == <<sched_stop, disk_ok>>

\* the thread that calls size, full and empty of the LockFreeQueue
ovars == <<o_pc, o_first, o_other, o_ret>>

vars == <<qvars, ovars, tpvars, mpvars, cmvars>>

\* everything but the producer and the consumer of the LockFreeQueue
notq == <<ovars, tpvars, mpvars, cmvars>>

\* everything but the ThreadPool
nottp == <<qvars, ovars, mpvars, cmvars>>

\* everything but the MemoryPool
notmp == <<qvars, ovars, tpvars, cmvars>>

\* everything but the CacheManager
notcm == <<qvars, ovars, tpvars, mpvars>>

\* everything but the thread that calls size, full and empty
noto == <<qvars, tpvars, mpvars, cmvars>>

(***************************************************************************)
(* LockFreeQueue: helpers                                                  *)
(***************************************************************************)
RECURSIVE Pow2Loop(_, _)
\* the while loop of next_power_of_2: power <<= 1 while power < n
Pow2Loop(power, n) == IF power < n THEN Pow2Loop(power * 2, n) ELSE power

\* LockFreeQueue::next_power_of_2
next_power_of_2(n) == IF n <= 1 THEN 1 ELSE Pow2Loop(1, n)

\* head & mask_ for a power-of-two capacity (mask_ = capacity_ - 1)
Masked(index, mask) == index % (mask + 1)

\* LockFreeQueue::empty
empty == tail_ >= head_

\* LockFreeQueue::full
full == head_ - tail_ >= capacity_

\* LockFreeQueue::size
size == head_ - tail_

\* the full test written with > instead of >=
PushFullTestStrict(head, tail, cap) == head - tail > cap

\* the full test of try_push on the producer's loaded indices
PushFullTest(head, tail, cap) == head - tail >= cap

\* the slot test of try_push: the slot is writable for index head
PushSlotTest(sequence, head) == sequence = head

\* the empty test of try_pop on the consumer's loaded indices
PopEmptyTest(tail, head) == tail >= head

\* the slot test of try_pop: the slot holds the element of index tail
PopSlotTest(sequence, tail) == sequence = tail + 1

\* the sequence number try_pop publishes for the slot it has emptied
PopReleaseSeq(tail, cap) == tail + cap

\* mutant of Advance: the index moves on by two
AdvanceTwo(index) == index + 2

\* the new value of the compare_exchange_weak of try_push (head + 1) and of
\* try_pop (tail + 1)
Advance(index) == index + 1

\* the sequence number try_push publishes for the slot it has filled
PushReleaseSeq(head) == head + 1

\* a - b in size_t.  A value of 2^63 or more stands as that value minus
\* 2^64; the indices stay far below 2^63, so the difference wraps exactly
\* when it is negative
SubSizeT(a, b) == a - b

\* a >= b between two size_t values in that representation
GeSizeT(a, b) == IF (a < 0) = (b < 0) THEN a >= b ELSE a < 0

\* what size() returns from the indices it has loaded
SizeOf(head, tail) == SubSizeT(head, tail)

\* what full() returns from the indices it has loaded
FullOf(head, tail, cap) == GeSizeT(SubSizeT(head, tail), cap)

\* what empty() returns from the indices it has loaded
EmptyOf(tail, head) == GeSizeT(tail, head)

\* the observing thread has no result
NoResult == [op |-> "none", num |-> 0, yes |-> FALSE, met |-> FALSE]

\* history: the queue can have held cap elements at some moment between a
\* load that found the tail at tail1 and a later one that found the head at
\* head2 (the indices only grow, so it never held more than head2 - tail1)
CanHaveBeenFull(head2, tail1, cap) == head2 - tail1 >= cap

\* history: the queue can have held no element at some moment between a
\* load that found the head at head1 and a later one that found the tail at
\* tail2 (it never held fewer than head1 - tail2)
CanHaveBeenEmpty(head1, tail2) == head1 - tail2 <= 0

\* snapshot of the shared queue state
QState == [head |-> head_, tail |-> tail_, seqn |-> seqn, data |-> data]

NoSnap == [head |-> 0, tail |-> 0, seqn |-> <<>>, data |-> <<>>]

(***************************************************************************)
(* LockFreeQueue: construction                                             *)
(***************************************************************************)
QueueInit(c) ==
    /\ requested = c
    /\ capacity_ = next_power_of_2(c)
    /\ mask_ = next_power_of_2(c) - 1
    /\ seqn = [i \in 0..(next_power_of_2(c) - 1) |-> i]
    /\ data = [i \in 0..(next_power_of_2(c) - 1) |-> Unspec]
    /\ head_ = 0
    /\ tail_ = 0
    /\ p_pc = "idle" /\ p_value = Unspec /\ p_head = 0 /\ p_tail = 0
    /\ p_result = "none"
    /\ c_pc = "idle" /\ c_tail = 0 /\ c_head = 0 /\ c_value = Unspec
    /\ c_result = "none"
    /\ nextVal = 1
    /\ pushed = <<>> /\ popped = <<>>
    /\ p_alone = TRUE
    /\ p_snap = NoSnap /\ c_snap = NoSnap
    /\ overlapped = FALSE
    /\ o_pc = "idle" /\ o_first = 0 /\ o_other = 0
    /\ o_ret = NoResult

(***************************************************************************)
(* LockFreeQueue::try_push, one action per atomic step                     *)
(***************************************************************************)
pvars == <<p_pc, p_value, p_head, p_tail, p_result, nextVal, pushed,
           p_alone, p_snap>>
cvars == <<c_pc, c_tail, c_head, c_value, c_result, popped, c_snap>>
shape == <<requested, capacity_, mask_>>

\* the producer returns from try_push with result r
PushReturn(r) ==
    /\ p_pc' = "idle"
    /\ p_result' = r
    /\ p_head' = 0
    /\ p_tail' = 0

\* the producer thread calls try_push(value) with a fresh value
PushCall ==
    /\ UNCHANGED notq
    /\ overlapped' = (overlapped \/ c_pc # "idle")
    /\ p_pc = "idle"
    /\ nextVal <= MaxPush
    /\ p_pc' = "load_head"
    /\ p_value' = nextVal
    /\ nextVal' = nextVal + 1
    /\ p_alone' = TRUE
    /\ p_snap' = QState
    /\ UNCHANGED <<p_head, p_tail, p_result, pushed>>
    /\ UNCHANGED <<shape, head_, tail_, seqn, data, cvars>>

\* size_t head = head_.load(relaxed)
PushLoadHead ==
    /\ UNCHANGED notq
    /\ overlapped' = (overlapped \/ c_pc # "idle")
    /\ p_pc = "load_head"
    /\ p_head' = head_
    /\ p_pc' = "load_tail"
    /\ UNCHANGED <<p_value, p_tail, p_result, nextVal, pushed, p_alone, p_snap>>
    /\ UNCHANGED <<shape, head_, tail_, seqn, data>>
    /\ UNCHANGED <<c_pc, c_tail, c_head, c_value, c_result, popped, c_snap>>

\* size_t tail = tail_.load(acquire); if (head - tail >= capacity_) return false
PushLoadTail ==
    /\ UNCHANGED notq
    /\ overlapped' = (overlapped \/ c_pc # "idle")
    /\ p_pc = "load_tail"
    /\ IF PushFullTest(p_head, tail_, capacity_)
       THEN PushReturn("fail")
       ELSE /\ p_tail' = tail_
            /\ p_pc' = "load_seq"
            /\ UNCHANGED <<p_head, p_result>>
    /\ UNCHANGED <<p_value, nextVal, pushed, p_alone, p_snap>>
    /\ UNCHANGED <<shape, head_, tail_, seqn, data>>
    /\ UNCHANGED <<c_pc, c_tail, c_head, c_value, c_result, popped, c_snap>>

\* sequence = node.sequence.load(acquire); if (sequence != head) return false
PushLoadSeq ==
    /\ UNCHANGED notq
    /\ overlapped' = (overlapped \/ c_pc # "idle")
    /\ p_pc = "load_seq"
    /\ IF PushSlotTest(seqn[Masked(p_head, mask_)], p_head)
       THEN /\ p_pc' = "cas"
            /\ UNCHANGED <<p_head, p_tail, p_result>>
       ELSE PushReturn("fail")
    /\ UNCHANGED <<p_value, nextVal, pushed, p_alone, p_snap>>
    /\ UNCHANGED <<shape, head_, tail_, seqn, data>>
    /\ UNCHANGED <<c_pc, c_tail, c_head, c_value, c_result, popped, c_snap>>

\* head_.compare_exchange_weak(head, head + 1, relaxed): fails when head_
\* differs from the expected value, and may also fail spuriously
PushCAS ==
    /\ UNCHANGED notq
    /\ overlapped' = (overlapped \/ c_pc # "idle")
    /\ p_pc = "cas"
    /\ \/ /\ head_ = p_head
          /\ head_' = Advance(p_head)
          /\ p_pc' = "store_data"
          /\ UNCHANGED <<p_head, p_tail, p_result>>
       \/ /\ head_' = head_
          /\ PushReturn("fail")
    /\ UNCHANGED <<p_value, nextVal, pushed, p_alone, p_snap>>
    /\ UNCHANGED <<shape, tail_, seqn, data>>
    /\ UNCHANGED <<c_pc, c_tail, c_head, c_value, c_result, popped, c_snap>>

\* node.data = value
PushStoreData ==
    /\ UNCHANGED notq
    /\ overlapped' = (overlapped \/ c_pc # "idle")
    /\ p_pc = "store_data"
    /\ data' = [data EXCEPT ![Masked(p_head, mask_)] = p_value]
    /\ p_pc' = "store_seq"
    /\ UNCHANGED <<p_value, p_head, p_tail, p_result, nextVal, pushed,
                   p_alone, p_snap>>
    /\ UNCHANGED <<shape, head_, tail_, seqn>>
    /\ UNCHANGED <<c_pc, c_tail, c_head, c_value, c_result, popped, c_snap>>

\* node.sequence.store(head + 1, release); return true
PushStoreSeq ==
    /\ UNCHANGED notq
    /\ overlapped' = (overlapped \/ c_pc # "idle")
    /\ p_pc = "store_seq"
    /\ seqn' = [seqn EXCEPT ![Masked(p_head, mask_)] = PushReleaseSeq(p_head)]
    /\ pushed' = Append(pushed, p_value)
    /\ PushReturn("ok")
    /\ UNCHANGED <<p_value, nextVal, p_alone, p_snap>>
    /\ UNCHANGED <<shape, head_, tail_, data>>
    /\ UNCHANGED <<c_pc, c_tail, c_head, c_value, c_result, popped, c_snap>>

(***************************************************************************)
(* LockFreeQueue::try_pop, one action per atomic step                      *)
(***************************************************************************)
\* the consumer returns from try_pop with result r
PopReturn(r) ==
    /\ c_pc' = "idle"
    /\ c_result' = r
    /\ c_tail' = 0
    /\ c_head' = 0

\* the consumer thread calls try_pop(value)
PopCall ==
    /\ UNCHANGED notq
    /\ overlapped' = (overlapped \/ p_pc # "idle")
    /\ c_pc = "idle"
    /\ c_pc' = "load_tail"
    /\ c_snap' = QState
    /\ UNCHANGED <<c_tail, c_head, c_value, c_result, popped>>
    /\ UNCHANGED <<shape, head_, tail_, seqn, data, pvars>>

\* size_t tail = tail_.load(relaxed)
PopLoadTail ==
    /\ UNCHANGED notq
    /\ overlapped' = (overlapped \/ p_pc # "idle")
    /\ c_pc = "load_tail"
    /\ c_tail' = tail_
    /\ c_pc' = "load_head"
    /\ p_alone' = FALSE
    /\ UNCHANGED <<c_head, c_value, c_result, popped, c_snap>>
    /\ UNCHANGED <<shape, head_, tail_, seqn, data>>
    /\ UNCHANGED <<p_pc, p_value, p_head, p_tail, p_result, nextVal, pushed,
                   p_snap>>

\* size_t head = head_.load(acquire); if (tail >= head) return false
PopLoadHead ==
    /\ UNCHANGED notq
    /\ overlapped' = (overlapped \/ p_pc # "idle")
    /\ c_pc = "load_head"
    /\ IF PopEmptyTest(c_tail, head_)
       THEN PopReturn("fail")
       ELSE /\ c_head' = head_
            /\ c_pc' = "load_seq"
            /\ UNCHANGED <<c_tail, c_result>>
    /\ p_alone' = FALSE
    /\ UNCHANGED <<c_value, popped, c_snap>>
    /\ UNCHANGED <<shape, head_, tail_, seqn, data>>
    /\ UNCHANGED <<p_pc, p_value, p_head, p_tail, p_result, nextVal, pushed,
                   p_snap>>

\* sequence = node.sequence.load(acquire); if (sequence != tail + 1) return false
PopLoadSeq ==
    /\ UNCHANGED notq
    /\ overlapped' = (overlapped \/ p_pc # "idle")
    /\ c_pc = "load_seq"
    /\ IF PopSlotTest(seqn[Masked(c_tail, mask_)], c_tail)
       THEN /\ c_pc' = "cas"
            /\ UNCHANGED <<c_tail, c_head, c_result>>
       ELSE PopReturn("fail")
    /\ p_alone' = FALSE
    /\ UNCHANGED <<c_value, popped, c_snap>>
    /\ UNCHANGED <<shape, head_, tail_, seqn, data>>
    /\ UNCHANGED <<p_pc, p_value, p_head, p_tail, p_result, nextVal, pushed,
                   p_snap>>

\* tail_.compare_exchange_weak(tail, tail + 1, relaxed): fails when tail_
\* differs from the expected value, and may also fail spuriously
PopCAS ==
    /\ UNCHANGED notq
    /\ overlapped' = (overlapped \/ p_pc # "idle")
    /\ c_pc = "cas"
    /\ \/ /\ tail_ = c_tail
          /\ tail_' = Advance(c_tail)
          /\ c_pc' = "load_data"
          /\ UNCHANGED <<c_tail, c_head, c_result>>
       \/ /\ tail_' = tail_
          /\ PopReturn("fail")
    /\ p_alone' = FALSE
    /\ UNCHANGED <<c_value, popped, c_snap>>
    /\ UNCHANGED <<shape, head_, seqn, data>>
    /\ UNCHANGED <<p_pc, p_value, p_head, p_tail, p_result, nextVal, pushed,
                   p_snap>>

\* value = std::move(node.data): the slot keeps its payload (trivial T) or is
\* left in the moved-from state
PopLoadData ==
    /\ UNCHANGED notq
    /\ overlapped' = (overlapped \/ p_pc # "idle")
    /\ c_pc = "load_data"
    /\ c_value' = data[Masked(c_tail, mask_)]
    /\ \E left \in {data[Masked(c_tail, mask_)], Unspec} :
           data' = [data EXCEPT ![Masked(c_tail, mask_)] = left]
    /\ c_pc' = "store_seq"
    /\ p_alone' = FALSE
    /\ UNCHANGED <<c_tail, c_head, c_result, popped, c_snap>>
    /\ UNCHANGED <<shape, head_, tail_, seqn>>
    /\ UNCHANGED <<p_pc, p_value, p_head, p_tail, p_result, nextVal, pushed,
                   p_snap>>

\* node.sequence.store(tail + capacity_, release); return true
PopStoreSeq ==
    /\ UNCHANGED notq
    /\ overlapped' = (overlapped \/ p_pc # "idle")
    /\ c_pc = "store_seq"
    /\ seqn' = [seqn EXCEPT ![Masked(c_tail, mask_)] =
                                 PopReleaseSeq(c_tail, capacity_)]
    /\ popped' = Append(popped, c_value)
    /\ PopReturn("ok")
    /\ p_alone' = FALSE
    /\ UNCHANGED <<c_value, c_snap>>
    /\ UNCHANGED <<shape, head_, tail_, data>>
    /\ UNCHANGED <<p_pc, p_value, p_head, p_tail, p_result, nextVal, pushed,
                   p_snap>>

(***************************************************************************)
(* LockFreeQueue::size, full and empty, called once by a thread that can   *)
(* be the producer, the consumer or a third one: two loads each            *)
(***************************************************************************)
\* size() and full(): size_t head = head_.load(relaxed)
ObserveLoadHead(op) ==
    /\ o_pc = "idle"
    /\ o_ret = NoResult
    /\ op \in {"size", "full"}
    /\ o_pc' = op
    /\ o_first' = head_
    /\ o_other' = tail_
    /\ UNCHANGED o_ret
    /\ UNCHANGED noto

\* size() and full(): size_t tail = tail_.load(relaxed), and the return
ObserveLoadTail ==
    /\ o_pc \in {"size", "full"}
    /\ o_ret' = [op |-> o_pc,
                 num |-> IF o_pc = "size" THEN SizeOf(o_first, tail_) ELSE 0,
                 yes |-> IF o_pc = "full"
                         THEN FullOf(o_first, tail_, capacity_) ELSE FALSE,
                 met |-> IF o_pc = "full"
                         THEN CanHaveBeenFull(head_, o_other, capacity_)
                         ELSE FALSE]
    /\ o_pc' = "idle"
    /\ o_first' = 0
    /\ o_other' = 0
    /\ UNCHANGED noto

\* empty(): size_t tail = tail_.load(relaxed)
EmptyLoadTail ==
    /\ o_pc = "idle"
    /\ o_ret = NoResult
    /\ o_pc' = "empty"
    /\ o_first' = tail_
    /\ o_other' = head_
    /\ UNCHANGED o_ret
    /\ UNCHANGED noto

\* empty(): size_t head = head_.load(relaxed), and the return
EmptyLoadHead ==
    /\ o_pc = "empty"
    /\ o_ret' = [op |-> "empty", num |-> 0,
                 yes |-> EmptyOf(o_first, head_),
                 met |-> CanHaveBeenEmpty(o_other, tail_)]
    /\ o_pc' = "idle"
    /\ o_first' = 0
    /\ o_other' = 0
    /\ UNCHANGED noto

(***************************************************************************)
(* ThreadPool: threads, tasks and futures                                  *)
(***************************************************************************)
\* the worker threads the constructor has started
Workers == DOMAIN wpc

\* the thread that owns the pool, and a second thread that submits to it
Owner == "main"
Clients == {"main", "sub"}

Tasks == 1..MaxTasks

WorkerThread(w) == <<"worker", w>>
ClientThread(c) == <<"client", c>>

\* shared state of a std::future: st is "none", "pending", "value",
\* "exception" or "dropped"
NoFuture == [st |-> "none", v |-> 0]
PendingFuture == [st |-> "pending", v |-> 0]
DroppedFuture == [st |-> "dropped", v |-> 0]

\* the value the callable of task t returns (the first task returns 42)
TaskValue(t) == 41 + t

\* invoking the packaged_task of task t: the callable's value, or the
\* exception it throws, is stored in the shared state and nothing is thrown
RunTask(t, th) ==
    IF th THEN [st |-> "exception", v |-> t]
          ELSE [st |-> "value", v |-> TaskValue(t)]

\* the submit call of task t has returned a handle to its caller
Accepted(t) == submitted[t] = "accepted" /\ \A c \in Clients : ctask[c] # t

\* submit without the stop_ test
SubmitNeverRefuses(stop) == FALSE

\* submit: if (stop_) throw
SubmitRefuses(stop) == stop

\* a wait predicate that only looks at stop_
WaitPredicateStopOnly(stop, tasks) == stop

\* the predicate of condition_.wait in worker_function
WaitPredicate(stop, tasks) == stop \/ tasks # <<>>

\* a worker that leaves as soon as stop_ is set
WorkerExitsOnStop(stop, tasks) == stop

\* worker_function: if (stop_ && tasks_.empty()) return
WorkerShouldExit(stop, tasks) == stop /\ tasks = <<>>

\* mutant of JoinReturns: the thread is let go, as by detach
JoinReturnsAtOnce(pc) == TRUE

\* worker.join() returns once the worker thread, at position pc, has
\* returned from worker_function
JoinReturns(pc) == pc = "exited"

\* mutant of DequeueRest: the task taken stays at the front of tasks_
DequeueKeeps(tasks) == tasks

\* worker_function: tasks_ after tasks_.pop()
DequeueRest(tasks) == Tail(tasks)

\* wait_all: if (tasks_.empty() && active_tasks_.load() == 0) break
WaitAllDone(tasks, active) == tasks = <<>> /\ active = 0

(***************************************************************************)
(* ThreadPool::ThreadPool(num_threads)                                     *)
(***************************************************************************)
PoolInit(n) ==
    /\ workers_ = [i \in 1..n |-> i]
    /\ joinable = 1..n
    /\ tasks_ = <<>>
    /\ queue_mutex_ = {}
    /\ cv_waiters = {}
    /\ stop_ = FALSE
    /\ active_tasks_ = 0
    /\ completed_tasks_ = 0
    /\ wpc = [w \in 1..n |-> "lock"]
    /\ wtask = [w \in 1..n |-> 0]
    /\ cpc = [c \in Clients |-> "idle"]
    /\ ctask = [c \in Clients |-> 0]
    /\ cres = [c \in Clients |-> "none"]
    /\ sd_idx = 1
    /\ sd_calls = 0
    /\ destroyed = FALSE
    /\ nextTask = 1
    /\ submitted = [t \in Tasks |-> "no"]
    /\ throws = [t \in Tasks |-> FALSE]
    /\ executed = [t \in Tasks |-> 0]
    /\ future = [t \in Tasks |-> NoFuture]
    /\ wa_before = {}

(***************************************************************************)
(* ThreadPool: submit, wait_all, shutdown and worker_function, one action  *)
(* per step between two synchronisation points                             *)
(***************************************************************************)
\* submit(task): the packaged_task and its future are created
SubmitCall(c, th) ==
    /\ cpc[c] = "idle"
    /\ ~destroyed
    /\ nextTask <= MaxTasks
    /\ cpc' = [cpc EXCEPT ![c] = "s_lock"]
    /\ cres' = [cres EXCEPT ![c] = "none"]
    /\ ctask' = [ctask EXCEPT ![c] = nextTask]
    /\ nextTask' = nextTask + 1
    /\ submitted' = [submitted EXCEPT ![nextTask] = "calling"]
    /\ throws' = [throws EXCEPT ![nextTask] = th]
    /\ future' = [future EXCEPT ![nextTask] = PendingFuture]
    /\ UNCHANGED <<workers_, joinable, tasks_, queue_mutex_, cv_waiters,
                   stop_, active_tasks_, completed_tasks_, wpc, wtask,
                   sd_idx, sd_calls, destroyed, executed, wa_before>>
    /\ UNCHANGED nottp

\* submit: std::lock_guard<std::mutex> lock(queue_mutex_)
SubmitLock(c) ==
    /\ cpc[c] = "s_lock"
    /\ queue_mutex_ = {}
    /\ queue_mutex_' = {ClientThread(c)}
    /\ cpc' = [cpc EXCEPT ![c] = "s_crit"]
    /\ UNCHANGED <<workers_, joinable, tasks_, cv_waiters, stop_,
                   active_tasks_, completed_tasks_, wpc, wtask, ctask, cres,
                   sd_idx, sd_calls, destroyed, nextTask, submitted, throws,
                   executed, future, wa_before>>
    /\ UNCHANGED nottp

\* submit: if (stop_) throw std::runtime_error(...); tasks_.emplace(...);
\* the lock is released at the end of the block or by the unwinding
SubmitCritical(c) ==
    /\ cpc[c] = "s_crit"
    /\ queue_mutex_' = {}
    /\ IF SubmitRefuses(stop_)
       THEN /\ submitted' = [submitted EXCEPT ![ctask[c]] = "rejected"]
            /\ future' = [future EXCEPT ![ctask[c]] = DroppedFuture]
            /\ cres' = [cres EXCEPT ![c] = "error"]
            /\ cpc' = [cpc EXCEPT ![c] = "idle"]
            /\ ctask' = [ctask EXCEPT ![c] = 0]
            /\ tasks_' = tasks_
       ELSE /\ tasks_' = Append(tasks_, ctask[c])
            /\ submitted' = [submitted EXCEPT ![ctask[c]] = "accepted"]
            /\ cpc' = [cpc EXCEPT ![c] = "s_notify"]
            /\ UNCHANGED <<future, cres, ctask>>
    /\ UNCHANGED <<workers_, joinable, cv_waiters, stop_, active_tasks_,
                   completed_tasks_, wpc, wtask, sd_idx, sd_calls, destroyed,
                   nextTask, throws, executed, wa_before>>
    /\ UNCHANGED nottp

\* submit: condition_.notify_one(); return result
SubmitNotify(c) ==
    /\ cpc[c] = "s_notify"
    /\ IF cv_waiters = {}
       THEN cv_waiters' = cv_waiters
       ELSE \E w \in cv_waiters : cv_waiters' = cv_waiters \ {w}
    /\ cres' = [cres EXCEPT ![c] = "handle"]
    /\ cpc' = [cpc EXCEPT ![c] = "idle"]
    /\ ctask' = [ctask EXCEPT ![c] = 0]
    /\ UNCHANGED <<workers_, joinable, tasks_, queue_mutex_, stop_,
                   active_tasks_, completed_tasks_, wpc, wtask, sd_idx,
                   sd_calls, destroyed, nextTask, submitted, throws,
                   executed, future, wa_before>>
    /\ UNCHANGED nottp

\* the owning thread calls wait_all()
WaitAllCall ==
    /\ cpc[Owner] = "idle"
    /\ ~destroyed
    /\ cpc' = [cpc EXCEPT ![Owner] = "wa_lock"]
    /\ cres' = [cres EXCEPT ![Owner] = "none"]
    /\ wa_before' = {t \in Tasks : Accepted(t)}
    /\ UNCHANGED <<workers_, joinable, tasks_, queue_mutex_, cv_waiters,
                   stop_, active_tasks_, completed_tasks_, wpc, wtask, ctask,
                   sd_idx, sd_calls, destroyed, nextTask, submitted, throws,
                   executed, future>>
    /\ UNCHANGED nottp

\* wait_all: std::lock_guard<std::mutex> lock(queue_mutex_)
WaitAllLock ==
    /\ cpc[Owner] = "wa_lock"
    /\ queue_mutex_ = {}
    /\ queue_mutex_' = {ClientThread(Owner)}
    /\ cpc' = [cpc EXCEPT ![Owner] = "wa_crit"]
    /\ UNCHANGED <<workers_, joinable, tasks_, cv_waiters, stop_,
                   active_tasks_, completed_tasks_, wpc, wtask, ctask, cres,
                   sd_idx, sd_calls, destroyed, nextTask, submitted, throws,
                   executed, future, wa_before>>
    /\ UNCHANGED nottp

\* wait_all: if (tasks_.empty() && active_tasks_.load() == 0) break;
\* otherwise unlock, yield and poll again
WaitAllCheck ==
    /\ cpc[Owner] = "wa_crit"
    /\ queue_mutex_' = {}
    /\ IF WaitAllDone(tasks_, active_tasks_)
       THEN /\ cpc' = [cpc EXCEPT ![Owner] = "idle"]
            /\ cres' = [cres EXCEPT ![Owner] = "waited"]
            /\ wa_before' = {}
       ELSE /\ cpc' = [cpc EXCEPT ![Owner] = "wa_lock"]
            /\ UNCHANGED <<cres, wa_before>>
    /\ UNCHANGED <<workers_, joinable, tasks_, cv_waiters, stop_,
                   active_tasks_, completed_tasks_, wpc, wtask, ctask,
                   sd_idx, sd_calls, destroyed, nextTask, submitted, throws,
                   executed, future>>
    /\ UNCHANGED nottp

\* the owning thread calls shutdown(), explicitly or from ~ThreadPool()
ShutdownCall(dtor) ==
    /\ cpc[Owner] = "idle"
    /\ ~destroyed
    /\ sd_calls < MaxShutdowns
    /\ dtor => \A c \in Clients : cpc[c] = "idle"
    /\ destroyed' = dtor
    /\ sd_calls' = sd_calls + 1
    /\ cres' = [cres EXCEPT ![Owner] = "none"]
    /\ cpc' = [cpc EXCEPT ![Owner] = "sd_lock"]
    /\ UNCHANGED <<workers_, joinable, tasks_, queue_mutex_, cv_waiters,
                   stop_, active_tasks_, completed_tasks_, wpc, wtask, ctask,
                   sd_idx, nextTask, submitted, throws, executed, future,
                   wa_before>>
    /\ UNCHANGED nottp

\* shutdown: std::lock_guard<std::mutex> lock(queue_mutex_)
ShutdownLock ==
    /\ cpc[Owner] = "sd_lock"
    /\ queue_mutex_ = {}
    /\ queue_mutex_' = {ClientThread(Owner)}
    /\ cpc' = [cpc EXCEPT ![Owner] = "sd_crit"]
    /\ UNCHANGED <<workers_, joinable, tasks_, cv_waiters, stop_,
                   active_tasks_, completed_tasks_, wpc, wtask, ctask, cres,
                   sd_idx, sd_calls, destroyed, nextTask, submitted, throws,
                   executed, future, wa_before>>
    /\ UNCHANGED nottp

\* shutdown: stop_ = true; the lock is released
ShutdownSetStop ==
    /\ cpc[Owner] = "sd_crit"
    /\ stop_' = TRUE
    /\ queue_mutex_' = {}
    /\ cpc' = [cpc EXCEPT ![Owner] = "sd_notify"]
    /\ UNCHANGED <<workers_, joinable, tasks_, cv_waiters, active_tasks_,
                   completed_tasks_, wpc, wtask, ctask, cres, sd_idx,
                   sd_calls, destroyed, nextTask, submitted, throws,
                   executed, future, wa_before>>
    /\ UNCHANGED nottp

\* mutant of ShutdownNotifyAll: shutdown goes on to the joins without a
\* notification
ShutdownNoNotify ==
    /\ cpc[Owner] = "sd_notify"
    /\ cv_waiters' = cv_waiters
    /\ sd_idx' = 1
    /\ cpc' = [cpc EXCEPT ![Owner] = "sd_join"]
    /\ UNCHANGED <<workers_, joinable, tasks_, queue_mutex_, stop_,
                   active_tasks_, completed_tasks_, wpc, wtask, ctask, cres,
                   sd_calls, destroyed, nextTask, submitted, throws,
                   executed, future, wa_before>>
    /\ UNCHANGED nottp

\* shutdown: condition_.notify_all()
ShutdownNotifyAll ==
    /\ cpc[Owner] = "sd_notify"
    /\ cv_waiters' = {}
    /\ sd_idx' = 1
    /\ cpc' = [cpc EXCEPT ![Owner] = "sd_join"]
    /\ UNCHANGED <<workers_, joinable, tasks_, queue_mutex_, stop_,
                   active_tasks_, completed_tasks_, wpc, wtask, ctask, cres,
                   sd_calls, destroyed, nextTask, submitted, throws,
                   executed, future, wa_before>>
    /\ UNCHANGED nottp

\* shutdown: for (auto &worker : workers_) if (worker.joinable()) worker.join();
\* join blocks until the worker thread has returned from worker_function
ShutdownJoin ==
    /\ cpc[Owner] = "sd_join"
    /\ sd_idx <= Len(workers_)
    /\ IF workers_[sd_idx] \in joinable
       THEN /\ JoinReturns(wpc[workers_[sd_idx]])
            /\ joinable' = joinable \ {workers_[sd_idx]}
       ELSE joinable' = joinable
    /\ sd_idx' = sd_idx + 1
    /\ UNCHANGED <<workers_, tasks_, queue_mutex_, cv_waiters, stop_,
                   active_tasks_, completed_tasks_, wpc, wtask, cpc, ctask,
                   cres, sd_calls, destroyed, nextTask, submitted, throws,
                   executed, future, wa_before>>
    /\ UNCHANGED nottp

\* a shutdown that returns without workers_.clear()
ShutdownKeepsWorkers ==
    /\ cpc[Owner] = "sd_join"
    /\ sd_idx > Len(workers_)
    /\ workers_' = workers_
    /\ sd_idx' = 1
    /\ cres' = [cres EXCEPT ![Owner] = "shutdown"]
    /\ cpc' = [cpc EXCEPT ![Owner] = "idle"]
    /\ UNCHANGED <<joinable, tasks_, queue_mutex_, cv_waiters, stop_,
                   active_tasks_, completed_tasks_, wpc, wtask, ctask,
                   sd_calls, destroyed, nextTask, submitted, throws,
                   executed, future, wa_before>>
    /\ UNCHANGED nottp

\* shutdown: workers_.clear(); return
ShutdownClear ==
    /\ cpc[Owner] = "sd_join"
    /\ sd_idx > Len(workers_)
    /\ workers_' = <<>>
    /\ sd_idx' = 1
    /\ cres' = [cres EXCEPT ![Owner] = "shutdown"]
    /\ cpc' = [cpc EXCEPT ![Owner] = "idle"]
    /\ UNCHANGED <<joinable, tasks_, queue_mutex_, cv_waiters, stop_,
                   active_tasks_, completed_tasks_, wpc, wtask, ctask,
                   sd_calls, destroyed, nextTask, submitted, throws,
                   executed, future, wa_before>>
    /\ UNCHANGED nottp

\* worker_function: std::unique_lock<std::mutex> lock(queue_mutex_)
WorkerLock(w) ==
    /\ wpc[w] = "lock"
    /\ queue_mutex_ = {}
    /\ queue_mutex_' = {WorkerThread(w)}
    /\ wpc' = [wpc EXCEPT ![w] = "check"]
    /\ UNCHANGED <<workers_, joinable, tasks_, cv_waiters, stop_,
                   active_tasks_, completed_tasks_, wtask, cpc, ctask, cres,
                   sd_idx, sd_calls, destroyed, nextTask, submitted, throws,
                   executed, future, wa_before>>
    /\ UNCHANGED nottp

\* worker_function: condition_.wait(lock, pred) with pred false: the lock is
\* released and the thread blocks on the condition variable
WorkerWait(w) ==
    /\ wpc[w] = "check"
    /\ ~WaitPredicate(stop_, tasks_)
    /\ queue_mutex_' = {}
    /\ cv_waiters' = cv_waiters \cup {w}
    /\ wpc' = [wpc EXCEPT ![w] = "waiting"]
    /\ UNCHANGED <<workers_, joinable, tasks_, stop_, active_tasks_,
                   completed_tasks_, wtask, cpc, ctask, cres, sd_idx,
                   sd_calls, destroyed, nextTask, submitted, throws,
                   executed, future, wa_before>>
    /\ UNCHANGED nottp

\* condition_.wait: a blocked thread may wake up without a notification
WorkerSpuriousWake(w) ==
    /\ wpc[w] = "waiting"
    /\ w \in cv_waiters
    /\ cv_waiters' = cv_waiters \ {w}
    /\ UNCHANGED <<workers_, joinable, tasks_, queue_mutex_, stop_,
                   active_tasks_, completed_tasks_, wpc, wtask, cpc, ctask,
                   cres, sd_idx, sd_calls, destroyed, nextTask, submitted,
                   throws, executed, future, wa_before>>
    /\ UNCHANGED nottp

\* condition_.wait: a woken thread takes the lock again and tests pred again
WorkerWake(w) ==
    /\ wpc[w] = "waiting"
    /\ w \notin cv_waiters
    /\ queue_mutex_ = {}
    /\ queue_mutex_' = {WorkerThread(w)}
    /\ wpc' = [wpc EXCEPT ![w] = "check"]
    /\ UNCHANGED <<workers_, joinable, tasks_, cv_waiters, stop_,
                   active_tasks_, completed_tasks_, wtask, cpc, ctask, cres,
                   sd_idx, sd_calls, destroyed, nextTask, submitted, throws,
                   executed, future, wa_before>>
    /\ UNCHANGED nottp

\* worker_function: if (stop_ && tasks_.empty()) return;
WorkerExit(w) ==
    /\ wpc[w] = "check"
    /\ WaitPredicate(stop_, tasks_)
    /\ WorkerShouldExit(stop_, tasks_)
    /\ queue_mutex_' = {}
    /\ wpc' = [wpc EXCEPT ![w] = "exited"]
    /\ UNCHANGED <<workers_, joinable, tasks_, cv_waiters, stop_,
                   active_tasks_, completed_tasks_, wtask, cpc, ctask, cres,
                   sd_idx, sd_calls, destroyed, nextTask, submitted, throws,
                   executed, future, wa_before>>
    /\ UNCHANGED nottp

\* worker_function: if (!tasks_.empty()) { task = move(tasks_.front());
\* tasks_.pop(); } and the lock is released at the end of the block
WorkerDequeue(w) ==
    /\ wpc[w] = "check"
    /\ WaitPredicate(stop_, tasks_)
    /\ ~WorkerShouldExit(stop_, tasks_)
    /\ IF tasks_ # <<>>
       THEN /\ wtask' = [wtask EXCEPT ![w] = Head(tasks_)]
            /\ tasks_' = DequeueRest(tasks_)
       ELSE /\ wtask' = [wtask EXCEPT ![w] = 0]
            /\ tasks_' = tasks_
    /\ queue_mutex_' = {}
    /\ wpc' = [wpc EXCEPT ![w] = "got"]
    /\ UNCHANGED <<workers_, joinable, cv_waiters, stop_, active_tasks_,
                   completed_tasks_, cpc, ctask, cres, sd_idx, sd_calls,
                   destroyed, nextTask, submitted, throws, executed, future,
                   wa_before>>
    /\ UNCHANGED nottp

\* worker_function: if (task) { active_tasks_.fetch_add(1); ...
WorkerBegin(w) ==
    /\ wpc[w] = "got"
    /\ IF wtask[w] # 0
       THEN /\ active_tasks_' = active_tasks_ + 1
            /\ wpc' = [wpc EXCEPT ![w] = "run"]
       ELSE /\ active_tasks_' = active_tasks_
            /\ wpc' = [wpc EXCEPT ![w] = "lock"]
    /\ UNCHANGED <<workers_, joinable, tasks_, queue_mutex_, cv_waiters,
                   stop_, completed_tasks_, wtask, cpc, ctask, cres, sd_idx,
                   sd_calls, destroyed, nextTask, submitted, throws,
                   executed, future, wa_before>>
    /\ UNCHANGED nottp

\* a worker whose task() lets the exception of the callable escape: the
\* worker thread ends and the future is never made ready
WorkerRunEscapes(w) ==
    /\ wpc[w] = "run"
    /\ executed' = [executed EXCEPT ![wtask[w]] = @ + 1]
    /\ IF throws[wtask[w]]
       THEN /\ future' = future
            /\ wpc' = [wpc EXCEPT ![w] = "exited"]
       ELSE /\ future' = [future EXCEPT ![wtask[w]] =
                                           RunTask(wtask[w], throws[wtask[w]])]
            /\ wpc' = [wpc EXCEPT ![w] = "finish"]
    /\ UNCHANGED <<workers_, joinable, tasks_, queue_mutex_, cv_waiters,
                   stop_, active_tasks_, completed_tasks_, wtask, cpc, ctask,
                   cres, sd_idx, sd_calls, destroyed, nextTask, submitted,
                   throws, wa_before>>
    /\ UNCHANGED nottp

\* worker_function: try { task(); } catch (...) {}: the queued lambda invokes
\* the packaged_task, which runs the callable and stores its value or its
\* exception in the shared state of the future
WorkerRun(w) ==
    /\ wpc[w] = "run"
    /\ executed' = [executed EXCEPT ![wtask[w]] = @ + 1]
    /\ future' = [future EXCEPT ![wtask[w]] = RunTask(wtask[w], throws[wtask[w]])]
    /\ wpc' = [wpc EXCEPT ![w] = "finish"]
    /\ UNCHANGED <<workers_, joinable, tasks_, queue_mutex_, cv_waiters,
                   stop_, active_tasks_, completed_tasks_, wtask, cpc, ctask,
                   cres, sd_idx, sd_calls, destroyed, nextTask, submitted,
                   throws, wa_before>>
    /\ UNCHANGED nottp

\* worker_function: active_tasks_.fetch_sub(1); completed_tasks_.fetch_add(1);
\* the loop starts over and the local task is destroyed
WorkerFinish(w) ==
    /\ wpc[w] = "finish"
    /\ active_tasks_' = active_tasks_ - 1
    /\ completed_tasks_' = completed_tasks_ + 1
    /\ wtask' = [wtask EXCEPT ![w] = 0]
    /\ wpc' = [wpc EXCEPT ![w] = "lock"]
    /\ UNCHANGED <<workers_, joinable, tasks_, queue_mutex_, cv_waiters,
                   stop_, cpc, ctask, cres, sd_idx, sd_calls, destroyed,
                   nextTask, submitted, throws, executed, future, wa_before>>
    /\ UNCHANGED nottp

(***************************************************************************)
(* MemoryPool (include/core/memory_pool.h, src/core/memory_pool.cpp)       *)
(* Addresses are byte addresses, 0 is nullptr.  The allocator behind       *)
(* make_unique places every new chunk above the previous one.  allocate    *)
(* and reserve run under pool_mutex_ from their first statement to their   *)
(* last and are one step each; deallocate validates its argument before it *)
(* takes pool_mutex_, so its validation and its critical section are one   *)
(* step each.  allocated_blocks_ is held as an integer that stands         *)
(* for its value modulo 2^64: a negative number n is the size_t 2^64 + n.  *)
(* The move constructor and move assignment of MemoryPool and a            *)
(* block_size of 0 (the constructor throws) are not modelled.              *)
(***************************************************************************)
\* sizeof(Block): a pointer and a char[1], padded to the pointer's alignment
SizeofBlock == 16
\* alignof(Block)
AlignofBlock == 8
\* offsetof(Block, data)
OffsetofData == 8

\* largest initial_blocks given to the MemoryPool constructor
MaxInitial == 4
\* largest num_blocks given to reserve
MaxReserve == 1
\* cap on total_blocks_ and on allocated_blocks_
MaxBlocks == 6
\* cap on the number of chunks
MaxChunks == 2
\* number of deallocate calls made with a pointer that is not outstanding
MaxBadFrees == 1
\* cap on total_blocks_ and on allocated_blocks_ for a pool on which such a
\* call is made
MaxMisuseBlocks == 3

\* the threads that use the MemoryPool
MPThreads == {"t1"}

\* the threads of the specification of concurrent calls
MPCThreads == {"t1", "t2"}

\* no thread: the owner of a free pool_mutex_
NoThread == "none"

\* the block_size the pool is constructed with: sizeof(int)
MPBlockArg == 4

\* address of the first chunk the allocator hands out
HeapBase == 4 * SizeofBlock

\* distance the allocator leaves between two chunks (its own header)
HeapGap == SizeofBlock

\* the constructor's computation of block_size_ from the argument block_size
BlockSize(block_size) ==
    LET total_block_size == SizeofBlock + block_size - 1
    IN  IF total_block_size % AlignofBlock # 0
        THEN total_block_size + AlignofBlock - (total_block_size % AlignofBlock)
        ELSE total_block_size

\* expand_pool: address of the i-th block of the chunk that starts at start
NewBlock(start, bs, i) == start + i * bs

\* expand_pool: Block::next after the loop has pushed n blocks of a chunk
ExpandNext(nx, fl, start, bs, n) ==
    [a \in DOMAIN nx \cup {NewBlock(start, bs, i) : i \in 0..(n - 1)} |->
        IF \E i \in 0..(n - 1) : a = NewBlock(start, bs, i)
        THEN IF a = start THEN fl ELSE a - bs
        ELSE nx[a]]

\* expand_pool: free_list_ after the loop has pushed n blocks of a chunk
ExpandFree(fl, start, bs, n) ==
    IF n = 0 THEN fl ELSE NewBlock(start, bs, n - 1)

\* expand_pool: chunks_ after push_back of the new chunk
ExpandChunks(ch, start, bs, n) == Append(ch, [start |-> start, size |-> bs * n])

\* the allocator: the address after the chunk just handed out
ExpandHeap(start, bs, n) == start + bs * n + HeapGap

Max2(a, b) == IF a >= b THEN a ELSE b

\* growth by a single block whatever the size of the pool
GrowByOne(total) == 1

\* allocate: the number of blocks an exhausted pool grows by
GrowBy(total) == Max2(1, total \div 2)

\* mutant of PopFree: the block handed out stays first in the free list
PopFreeKept(nx, fl) == fl

\* allocate: free_list_ = block->next, for the first free block fl
PopFree(nx, fl) == nx[fl]

RECURSIVE ListLen(_, _, _)
\* the loop of free_blocks: nodes from p to nullptr, -1 when the walk does
\* not end (the list is cyclic)
ListLen(p, nx, fuel) ==
    IF p = 0 THEN 0
    ELSE IF fuel = 0 \/ p \notin DOMAIN nx THEN -1
    ELSE LET r == ListLen(nx[p], nx, fuel - 1)
         IN  IF r < 0 THEN -1 ELSE r + 1

\* MemoryPool::total_blocks
total_blocks == total_blocks_

\* MemoryPool::free_blocks
free_blocks == ListLen(free_list_, blk_next, Cardinality(DOMAIN blk_next))

\* MemoryPool::allocated_blocks
allocated_blocks == allocated_blocks_

\* is_valid_pointer: ptr lies between chunk_start and chunk_end
InChunk(ptr, chunk, total, bs) ==
    /\ ptr >= chunk.start
    /\ ptr < chunk.start + total * bs

\* MemoryPool::is_valid_pointer
is_valid_pointer(ptr) ==
    /\ ptr # 0
    /\ \E c \in 1..Len(chunks_) :
          /\ InChunk(ptr, chunks_[c], total_blocks_, block_size_)
          /\ (ptr - chunks_[c].start) % block_size_ = OffsetofData

\* deallocate that gives the block back without counting it
CountAfterFreeKept(n) == n

\* deallocate: allocated_blocks_.fetch_sub(1)
CountAfterFree(n) == n - 1

\* the pointer values a caller passes to deallocate: the pointers it holds,
\* nullptr, an address above the last chunk, and for every chunk its start
\* (a block header), the address AlignofBlock after the data of its first
\* block and the address OffsetofData past its end; the data address of the
\* first free block
PtrValues ==
    {0, heap_top + OffsetofData}
        \cup outstanding
        \cup {chunks_[c].start : c \in 1..Len(chunks_)}
        \cup {chunks_[c].start + OffsetofData + AlignofBlock :
                 c \in 1..Len(chunks_)}
        \cup {chunks_[c].start + chunks_[c].size + OffsetofData :
                 c \in 1..Len(chunks_)}
        \cup (IF free_list_ # 0 THEN {free_list_ + OffsetofData} ELSE {})

\* the cap on total_blocks_ and allocated_blocks_ in the current state
BlockCap == IF mp_bad = 0 THEN MaxBlocks ELSE MaxMisuseBlocks

(***************************************************************************)
(* MemoryPool: construction                                                *)
(***************************************************************************)
MemInitFor(threads, bsz, n) ==
    /\ block_size_ = BlockSize(bsz)
    /\ mp_initial = n
    /\ blk_next = ExpandNext([a \in {} |-> 0], 0, HeapBase, BlockSize(bsz), n)
    /\ free_list_ = ExpandFree(0, HeapBase, BlockSize(bsz), n)
    /\ chunks_ = IF n > 0 THEN ExpandChunks(<<>>, HeapBase, BlockSize(bsz), n)
                 ELSE <<>>
    /\ heap_top = IF n > 0 THEN ExpandHeap(HeapBase, BlockSize(bsz), n)
                  ELSE HeapBase
    /\ total_blocks_ = n
    /\ allocated_blocks_ = 0
    /\ mp_pc = [t \in threads |-> "idle"]
    /\ mp_ptr = [t \in threads |-> 0]
    /\ mp_foreign = [t \in threads |-> FALSE]
    /\ outstanding = {}
    /\ ever_returned = {}
    /\ mp_bad = 0
    /\ pool_mutex_ = NoThread
    /\ mp_num = [t \in threads |-> 0]

\* a pool used by the threads of MPThreads
MemInit(bsz, n) == MemInitFor(MPThreads, bsz, n)

(***************************************************************************)
(* MemoryPool: operations                                                  *)
(***************************************************************************)
\* allocate: expand_pool when free_list_ is null, pop the first free block,
\* allocated_blocks_.fetch_add(1), return block->data
MPAllocate(t) ==
    /\ mp_pc[t] = "idle"
    /\ pool_mutex_ = NoThread
    /\ allocated_blocks_ < BlockCap
    /\ LET grow == free_list_ = 0
           n == GrowBy(total_blocks_)
           nx == IF grow
                 THEN ExpandNext(blk_next, free_list_, heap_top, block_size_, n)
                 ELSE blk_next
           fl == IF grow
                 THEN ExpandFree(free_list_, heap_top, block_size_, n)
                 ELSE free_list_
       IN  /\ grow => total_blocks_ + n <= BlockCap /\ Len(chunks_) < MaxChunks
           /\ blk_next' = nx
           /\ free_list_' = PopFree(nx, fl)
           /\ chunks_' = IF grow
                         THEN ExpandChunks(chunks_, heap_top, block_size_, n)
                         ELSE chunks_
           /\ heap_top' = IF grow THEN ExpandHeap(heap_top, block_size_, n)
                          ELSE heap_top
           /\ total_blocks_' = IF grow THEN total_blocks_ + n ELSE total_blocks_
           /\ outstanding' = outstanding \cup {fl + OffsetofData}
           /\ ever_returned' = ever_returned \cup {fl + OffsetofData}
    /\ allocated_blocks_' = allocated_blocks_ + 1
    /\ UNCHANGED <<block_size_, mp_pc, mp_ptr, mp_initial, mp_foreign, mp_bad>>
    /\ UNCHANGED <<pool_mutex_, mp_num>>
    /\ UNCHANGED notmp

\* reserve: expand_pool(num_blocks) under pool_mutex_
MPReserve(t, k) ==
    /\ mp_pc[t] = "idle"
    /\ pool_mutex_ = NoThread
    /\ total_blocks_ + k <= BlockCap
    /\ Len(chunks_) < MaxChunks
    /\ blk_next' = ExpandNext(blk_next, free_list_, heap_top, block_size_, k)
    /\ free_list_' = ExpandFree(free_list_, heap_top, block_size_, k)
    /\ chunks_' = ExpandChunks(chunks_, heap_top, block_size_, k)
    /\ heap_top' = ExpandHeap(heap_top, block_size_, k)
    /\ total_blocks_' = total_blocks_ + k
    /\ UNCHANGED <<block_size_, allocated_blocks_, mp_pc, mp_ptr, mp_initial,
                   outstanding, ever_returned, mp_foreign, mp_bad>>
    /\ UNCHANGED <<pool_mutex_, mp_num>>
    /\ UNCHANGED notmp

\* deallocate up to the lock: if (ptr == nullptr) return;
\* if (!is_valid_pointer(ptr)) return; both made without pool_mutex_.  The
\* caller gives up an outstanding pointer with the call.
MPDeallocate(t, ptr) ==
    /\ mp_pc[t] = "idle"
    /\ ptr \in PtrValues
    /\ ptr \notin outstanding /\ ptr # 0 =>
          mp_bad < MaxBadFrees /\ total_blocks_ <= MaxMisuseBlocks
    /\ mp_pc' = [mp_pc EXCEPT ![t] =
                    IF is_valid_pointer(ptr) THEN "locked" ELSE "idle"]
    /\ mp_ptr' = [mp_ptr EXCEPT ![t] = IF is_valid_pointer(ptr) THEN ptr ELSE 0]
    /\ mp_foreign' = [mp_foreign EXCEPT ![t] =
                         is_valid_pointer(ptr) /\ ptr \notin ever_returned]
    /\ mp_bad' = IF ptr \notin outstanding /\ ptr # 0 THEN mp_bad + 1 ELSE mp_bad
    /\ outstanding' = outstanding \ {ptr}
    /\ UNCHANGED <<block_size_, chunks_, free_list_, blk_next, total_blocks_,
                   allocated_blocks_, heap_top, mp_initial, ever_returned>>
    /\ UNCHANGED <<pool_mutex_, mp_num>>
    /\ UNCHANGED notmp

\* deallocate under pool_mutex_: block = ptr - offsetof(Block, data),
\* block->next = free_list_, free_list_ = block, allocated_blocks_.fetch_sub(1)
MPDeallocCritical(t) ==
    /\ mp_pc[t] = "locked"
    /\ pool_mutex_ = NoThread
    /\ LET block == mp_ptr[t] - OffsetofData
       IN  /\ blk_next' = (block :> free_list_) @@ blk_next
           /\ free_list_' = block
    /\ allocated_blocks_' = CountAfterFree(allocated_blocks_)
    /\ mp_pc' = [mp_pc EXCEPT ![t] = "idle"]
    /\ mp_ptr' = [mp_ptr EXCEPT ![t] = 0]
    /\ mp_foreign' = [mp_foreign EXCEPT ![t] = FALSE]
    /\ UNCHANGED <<block_size_, chunks_, total_blocks_, heap_top, mp_initial,
                   outstanding, ever_returned, mp_bad>>
    /\ UNCHANGED <<pool_mutex_, mp_num>>
    /\ UNCHANGED notmp

\* reserve, first step: lock pool_mutex_
ReserveLock(t, k) ==
    /\ mp_pc[t] = "idle"
    /\ pool_mutex_ = NoThread
    /\ total_blocks_ + k <= BlockCap
    /\ Len(chunks_) < MaxChunks
    /\ pool_mutex_' = t
    /\ mp_pc' = [mp_pc EXCEPT ![t] = "expanding"]
    /\ mp_num' = [mp_num EXCEPT ![t] = k]
    /\ UNCHANGED <<block_size_, chunks_, free_list_, blk_next, total_blocks_,
                   allocated_blocks_, heap_top, mp_ptr, mp_initial,
                   outstanding, ever_returned, mp_foreign, mp_bad>>
    /\ UNCHANGED notmp

\* reserve, second step: expand_pool(num_blocks) and the release of
\* pool_mutex_
ReserveExpand(t) ==
    /\ mp_pc[t] = "expanding"
    /\ pool_mutex_ = t
    /\ blk_next' = ExpandNext(blk_next, free_list_, heap_top, block_size_,
                              mp_num[t])
    /\ free_list_' = ExpandFree(free_list_, heap_top, block_size_, mp_num[t])
    /\ chunks_' = ExpandChunks(chunks_, heap_top, block_size_, mp_num[t])
    /\ heap_top' = ExpandHeap(heap_top, block_size_, mp_num[t])
    /\ total_blocks_' = total_blocks_ + mp_num[t]
    /\ pool_mutex_' = NoThread
    /\ mp_pc' = [mp_pc EXCEPT ![t] = "idle"]
    /\ mp_num' = [mp_num EXCEPT ![t] = 0]
    /\ UNCHANGED <<block_size_, allocated_blocks_, mp_ptr, mp_initial,
                   outstanding, ever_returned, mp_foreign, mp_bad>>
    /\ UNCHANGED notmp

\* another thread is inside expand_pool, writing chunks_ and total_blocks_
Growing(t) == \E u \in DOMAIN mp_pc : u # t /\ mp_pc[u] = "expanding"

\* deallocate up to the lock, called with null or with a pointer the caller
\* holds: the null test and is_valid_pointer, made without pool_mutex_.
\* While another thread is inside expand_pool the reads of chunks_ and
\* total_blocks_ race with its writes, and the outcome of the validation is
\* not determined.
DeallocateValidate(t, ptr) ==
    /\ mp_pc[t] = "idle"
    /\ ptr \in outstanding \cup {0}
    /\ \E valid \in IF ptr # 0 /\ Growing(t) THEN BOOLEAN
                    ELSE {is_valid_pointer(ptr)} :
          /\ mp_pc' = [mp_pc EXCEPT ![t] = IF valid THEN "locked" ELSE "idle"]
          /\ mp_ptr' = [mp_ptr EXCEPT ![t] = IF valid THEN ptr ELSE 0]
    /\ outstanding' = outstanding \ {ptr}
    /\ UNCHANGED <<block_size_, chunks_, free_list_, blk_next, total_blocks_,
                   allocated_blocks_, heap_top, mp_initial, ever_returned,
                   mp_foreign, mp_bad, pool_mutex_, mp_num>>
    /\ UNCHANGED notmp

(***************************************************************************)
(* CacheManager (include/data/cache_manager.h, src/data/cache_manager.cpp) *)
(* One thread calls the cache.  get, put, remove and clear hold            *)
(* cache_mutex_ from their first statement to their last and are one step  *)
(* each.  cleanup_expired_entries and preload_from_disk take cache_mutex_  *)
(* and then call remove / put, which lock cache_mutex_ again on the same   *)
(* thread; locking a std::mutex the thread already owns is undefined: the  *)
(* call either never returns or throws std::system_error.  A supplied      *)
(* ThreadPool is modelled by its task queue, a queued disk write being run *)
(* by one of its workers; it is not shut down while the cache uses it.     *)
(* A MarketDataSeries is its                                               *)
(* symbol and its number of points; a cache file is the JSON object that   *)
(* persist_to_disk dumps.  CacheEntry::last_accessed is written and never  *)
(* read and is left out, as are the statistics total_requests_ and         *)
(* cache_hits_ and the metadata file.                                      *)
(***************************************************************************)
\* sizeof(MarketDataPoint): a time_point, four doubles and an int64_t
SizeofPoint == 48
\* sizeof(std::vector<MarketDataPoint>)
SizeofVector == 24
\* the constant overhead estimate_memory_usage adds
EstimateOverhead == 100
\* the max_memory_mb the cache is constructed with
CacheMemoryMb == 1

\* the latest reading of the steady clock, in hours after construction
MaxClock == 1
\* cap on the number of queued disk writes
MaxPending == 1
\* cap on the number of queued disk writes when all of them are writes of
\* the key being put
MaxPendingSame == 2
\* number of workers of the supplied ThreadPool
SchedWorkers == 2

\* cache keys used by the caller
Keys == {"k1", "k2", "k3"}

\* the payloads the caller puts: the budget of 1 MB holds two of the first,
\* or one of the first and one of the second, but not two of the second;
\* the third never fits
Series == {[symbol |-> "AAPL", points |-> 8000],
           [symbol |-> "MSFT", points |-> 12000],
           [symbol |-> "AAPL", points |-> 22000]}

\* std::nullopt
NoSeries == [symbol |-> "", points |-> -1]

\* a cache file that does not exist
NoFile == [symbol |-> "", data |-> -1]

\* persist_to_disk: the JSON object written for a series
ToJson(d) == [symbol |-> d.symbol, data |-> d.points]

\* load_from_disk: the series built from a cache file
FromJson(j) == [symbol |-> j.symbol, points |-> j.data]

\* CacheManager::estimate_memory_usage
estimate_memory_usage(d) ==
    LET base_size == SizeofPoint * d.points
        overhead == Len(d.symbol) + SizeofVector + EstimateOverhead
    IN  base_size + overhead

\* the constructor: max_memory_mb * 1024 * 1024
BudgetBytes(max_memory_mb) == max_memory_mb * 1024 * 1024

\* unordered_map::erase
MapErase(c, key) == [k \in DOMAIN c \ {key} |-> c[k]]

\* a list removal that removes nothing
ListRemoveNothing(l, key) == l

\* std::list::remove
ListRemove(l, key) == SelectSeq(l, LAMBDA x : x # key)

\* get that leaves the recency list as it is
MoveToFrontNot(l, key) == l

\* get: lru_list_.remove(key); lru_list_.push_front(key)
MoveToFront(l, key) == <<key>> \o ListRemove(l, key)

\* mutant of PushFront: the key is put last
PushBack(l, key) == Append(l, key)

\* lru_list_.push_front(key)
PushFront(l, key) == <<key>> \o l

\* eviction of the most recently used key
LruVictimFront(l) == l[1]

\* evict_lru_item: lru_list_.back()
LruVictim(l) == l[Len(l)]

\* a put that never drops its payload
TooLargeNever(mem, data_size, budget) == FALSE

\* mutant of TooLarge: the payload is tested against the budget on its own
TooLargeAlone(mem, data_size, budget) == data_size > budget

\* put: current_memory_bytes_ + data_size > max_memory_bytes_
TooLarge(mem, data_size, budget) == mem + data_size > budget

\* a re-put that keeps the bytes of the entry it replaces
ReplacedBytesNone(c, key) == 0

\* put: the size_bytes of the existing entry of key, which put subtracts
ReplacedBytes(c, key) == IF key \in DOMAIN c THEN c[key].size_bytes ELSE 0

\* CacheManager::evict_lru_item on the state st of cache_, lru_list_ and
\* current_memory_bytes_
evict_lru_item(st) ==
    IF st.lru = <<>> THEN st
    ELSE LET key_to_evict == LruVictim(st.lru)
             popped_back == SubSeq(st.lru, 1, Len(st.lru) - 1)
         IN  IF key_to_evict \in DOMAIN st.cache
             THEN [st EXCEPT !.lru = popped_back,
                             !.mem = @ - st.cache[key_to_evict].size_bytes,
                             !.cache = MapErase(@, key_to_evict)]
             ELSE [st EXCEPT !.lru = popped_back]

\* mutant of EvictLoop: an if in place of the while, one eviction at most
EvictOnce(st, data_size, budget) ==
    IF TooLarge(st.mem, data_size, budget) /\ DOMAIN st.cache # {}
    THEN IF st.lru = <<>> THEN [st EXCEPT !.hang = TRUE]
         ELSE evict_lru_item(st)
    ELSE st

RECURSIVE EvictLoop(_, _, _)
\* put: the while loop around evict_lru_item; st.hang when the loop cannot
\* end (entries are cached and lru_list_ is empty)
EvictLoop(st, data_size, budget) ==
    IF TooLarge(st.mem, data_size, budget) /\ DOMAIN st.cache # {}
    THEN IF st.lru = <<>> THEN [st EXCEPT !.hang = TRUE]
         ELSE EvictLoop(evict_lru_item(st), data_size, budget)
    ELSE st

\* CacheManager::contains
contains(key) == key \in DOMAIN cache_

\* CacheManager::size, named after the class as size is the queue's
cache_size == Cardinality(DOMAIN cache_)

\* CacheManager::memory_usage
memory_usage == current_memory_bytes_

\* CacheManager::hit_rate: the quotient as <<numerator, denominator>>, 0.0
\* being <<0, 1>>
hit_rate ==
    IF total_requests_ = 0 THEN <<0, 1>>
    ELSE <<cache_hits_, total_requests_>>

\* what get(key) returns
GetValue(c, key) == IF key \in DOMAIN c THEN c[key].data ELSE NoSeries

\* the record kept of a step of the cache: the operation (of get, put,
\* cleanup_expired_entries and preload_from_disk), its outcome, what it
\* returned and how many entries it evicted
Did(op, result, ret) ==
    [op |-> op, result |-> result, ret |-> ret, evicted |-> 0,
     threw |-> FALSE]

\* history: the recency order restricted to the keys that are cached
Cached(l, c) == SelectSeq(l, LAMBDA x : x \in DOMAIN c)

\* history: the latest payloads restricted to the keys that are cached
CachedPut(lp, c) == [k \in DOMAIN c |-> IF k \in DOMAIN lp THEN lp[k] ELSE NoSeries]

\* cleanup_expired_entries: now - entry.created > max_age
Expired(entry, clock, max_age) == clock - entry.created > max_age

\* the bound on tasks_ of the supplied ThreadPool
PendingRoom(q, key) ==
    \/ Len(q) < MaxPending
    \/ /\ Len(q) < MaxPendingSame
       /\ \A i \in 1..Len(q) : q[i].key = key

\* history: the queued writes of key are marked as scheduled before a
\* remove(key) that no put(key) has followed
MarkStale(q, key) ==
    [i \in 1..Len(q) |-> IF q[i].key = key THEN [q[i] EXCEPT !.stale = TRUE]
                                           ELSE q[i]]

\* history: a put(key) ends the marking of the queued writes of key
Unmark(q, key) ==
    [i \in 1..Len(q) |-> IF q[i].key = key THEN [q[i] EXCEPT !.stale = FALSE]
                                           ELSE q[i]]

\* the .cache files found by directory_iterator
CacheFiles == {k \in Keys : disk[k] # NoFile}

(***************************************************************************)
(* CacheManager: construction                                              *)
(***************************************************************************)
CacheInit(pool, stopped, writable) ==
    /\ cache_ = [k \in {} |-> NoSeries]
    /\ lru_list_ = <<>>
    /\ max_memory_bytes_ = BudgetBytes(CacheMemoryMb)
    /\ current_memory_bytes_ = 0
    /\ thread_pool_ = pool
    /\ cache_mutex_ = FALSE
    /\ disk = [k \in Keys |-> NoFile]
    /\ cm_pc = "idle"
    /\ cm_todo = {}
    /\ cm_pending = <<>>
    /\ now = 0
    /\ cm_last = Did("", "", NoSeries)
    /\ touched = <<>>
    /\ last_put = [k \in {} |-> NoSeries]
    /\ total_requests_ = 0
    /\ cache_hits_ = 0
    /\ sched_stop = stopped
    /\ disk_ok = writable

(***************************************************************************)
(* CacheManager: operations                                                *)
(***************************************************************************)
\* CacheManager::get
CacheGet(key) ==
    /\ cm_pc = "idle"
    /\ IF key \in DOMAIN cache_
       THEN /\ lru_list_' = MoveToFront(lru_list_, key)
            /\ touched' = <<key>> \o SelectSeq(touched, LAMBDA x : x # key)
            /\ cm_last' = Did("get", "hit", cache_[key].data)
       ELSE /\ UNCHANGED <<lru_list_, touched>>
            /\ cm_last' = Did("get", "miss", NoSeries)
    /\ UNCHANGED <<cache_, max_memory_bytes_, current_memory_bytes_, thread_pool_,
                   cache_mutex_, disk, cm_pc, cm_todo, cm_pending, now, last_put>>
    /\ UNCHANGED <<cmstats, cmenv>>
    /\ UNCHANGED notcm

\* CacheManager::put: the eviction loop, the drop of a payload that still
\* does not fit, the insertion, and the disk write made at once (no
\* ThreadPool) or submitted to the ThreadPool
CachePut(key, series) ==
    /\ cm_pc = "idle"
    /\ LET data_size == estimate_memory_usage(series)
           st == EvictLoop([cache |-> cache_, lru |-> lru_list_,
                            mem |-> current_memory_bytes_, hang |-> FALSE],
                           data_size, max_memory_bytes_)
           dropped == TooLarge(st.mem, data_size, max_memory_bytes_)
           stored == ~st.hang /\ ~dropped
           entry == [data |-> series, size_bytes |-> data_size,
                     created |-> now]
           existing == key \in DOMAIN st.cache
           queued == stored /\ thread_pool_ /\ ~sched_stop
           refused == stored /\ thread_pool_ /\ sched_stop
       IN  /\ queued => PendingRoom(cm_pending, key)
           /\ cache_' = IF stored THEN (key :> entry) @@ st.cache ELSE st.cache
           /\ current_memory_bytes_' =
                 IF stored
                 THEN st.mem - ReplacedBytes(st.cache, key) + data_size
                 ELSE st.mem
           /\ lru_list_' =
                 IF stored
                 THEN PushFront(IF existing THEN ListRemove(st.lru, key)
                                ELSE st.lru, key)
                 ELSE st.lru
           /\ disk' = IF stored /\ ~thread_pool_ /\ disk_ok
                      THEN [disk EXCEPT ![key] = ToJson(series)]
                      ELSE disk
           /\ cm_pending' =
                 IF stored
                 THEN (IF queued
                       THEN Append(Unmark(cm_pending, key),
                                   [key |-> key, data |-> series,
                                    stale |-> FALSE])
                       ELSE Unmark(cm_pending, key))
                 ELSE cm_pending
           /\ cm_pc' = IF st.hang THEN "hung" ELSE "idle"
           /\ cache_mutex_' = st.hang
           /\ cm_last' =
                 [Did("put",
                      IF st.hang THEN "hung"
                      ELSE IF dropped THEN "dropped"
                      ELSE IF ~existing THEN "stored"
                      ELSE IF st.cache[key].size_bytes = data_size
                      THEN "replaced"
                      ELSE "resized",
                      NoSeries)
                  EXCEPT !.evicted = Cardinality(DOMAIN cache_)
                                        - Cardinality(DOMAIN st.cache),
                         !.threw = refused]
           /\ touched' =
                 Cached(IF stored
                        THEN <<key>> \o SelectSeq(touched, LAMBDA x : x # key)
                        ELSE touched, cache_')
           /\ last_put' = CachedPut((key :> series) @@ last_put, cache_')
    /\ UNCHANGED <<max_memory_bytes_, thread_pool_, cm_todo, now>>
    /\ UNCHANGED <<cmstats, cmenv>>
    /\ UNCHANGED notcm

\* CacheManager::remove
CacheRemove(key) ==
    /\ cm_pc = "idle"
    /\ IF key \in DOMAIN cache_
       THEN /\ current_memory_bytes_' =
                  current_memory_bytes_ - cache_[key].size_bytes
            /\ lru_list_' = ListRemove(lru_list_, key)
            /\ cache_' = MapErase(cache_, key)
            /\ disk' = [disk EXCEPT ![key] = NoFile]
            /\ cm_pending' = MarkStale(cm_pending, key)
            /\ cm_last' = Did("", "", NoSeries)
       ELSE /\ UNCHANGED <<current_memory_bytes_, lru_list_, cache_, disk,
                           cm_pending>>
            /\ cm_last' = Did("", "", NoSeries)
    /\ touched' = Cached(touched, cache_')
    /\ last_put' = CachedPut(last_put, cache_')
    /\ UNCHANGED <<max_memory_bytes_, thread_pool_, cache_mutex_, cm_pc,
                   cm_todo, now>>
    /\ UNCHANGED <<cmstats, cmenv>>
    /\ UNCHANGED notcm

\* CacheManager::clear
CacheClear ==
    /\ cm_pc = "idle"
    /\ cache_' = [k \in {} |-> NoSeries]
    /\ lru_list_' = <<>>
    /\ current_memory_bytes_' = 0
    /\ disk' = [k \in Keys |-> NoFile]
    /\ cm_last' = Did("", "", NoSeries)
    /\ touched' = <<>>
    /\ last_put' = [k \in {} |-> NoSeries]
    /\ UNCHANGED <<max_memory_bytes_, thread_pool_, cache_mutex_, cm_pc,
                   cm_todo, cm_pending, now>>
    /\ UNCHANGED <<cmstats, cmenv>>
    /\ UNCHANGED notcm

\* cleanup_expired_entries: lock cache_mutex_, collect the expired keys; with
\* none to remove the call returns, otherwise it goes on to remove(key)
CleanupCall(max_age) ==
    /\ cm_pc = "idle"
    /\ LET to_remove == {k \in DOMAIN cache_ : Expired(cache_[k], now, max_age)}
       IN  /\ cm_todo' = to_remove
           /\ cm_pc' = IF to_remove = {} THEN "idle" ELSE "cleanup_remove"
           /\ cache_mutex_' = (to_remove # {})
           /\ cm_last' = Did("cleanup",
                             IF to_remove = {} THEN "returned" ELSE "called",
                             NoSeries)
    /\ UNCHANGED <<cache_, lru_list_, max_memory_bytes_, current_memory_bytes_,
                   thread_pool_, disk, cm_pending, now, touched,
                   last_put>>
    /\ UNCHANGED <<cmstats, cmenv>>
    /\ UNCHANGED notcm

\* cleanup_expired_entries: remove(key) locks cache_mutex_, which this thread
\* holds: the thread blocks for ever, or lock throws std::system_error, which
\* leaves cleanup_expired_entries and releases the mutex
CleanupRelock ==
    /\ cm_pc = "cleanup_remove"
    /\ cache_mutex_
    /\ \/ /\ cm_pc' = "deadlocked"
          /\ cm_last' = [cm_last EXCEPT !.result = "blocked"]
          /\ UNCHANGED <<cache_mutex_, cm_todo>>
       \/ /\ cm_pc' = "idle"
          /\ cache_mutex_' = FALSE
          /\ cm_todo' = {}
          /\ cm_last' = [cm_last EXCEPT !.result = "threw"]
    /\ UNCHANGED <<cache_, lru_list_, max_memory_bytes_, current_memory_bytes_,
                   thread_pool_, disk, cm_pending, now, touched,
                   last_put>>
    /\ UNCHANGED <<cmstats, cmenv>>
    /\ UNCHANGED notcm

\* preload_from_disk: lock cache_mutex_ and start the loop over the .cache
\* files of cache_dir_; with no file the call returns
PreloadCall ==
    /\ cm_pc = "idle"
    /\ cm_todo' = CacheFiles
    /\ cm_pc' = IF CacheFiles = {} THEN "idle" ELSE "preload_put"
    /\ cache_mutex_' = (CacheFiles # {})
    /\ cm_last' = Did("preload",
                      IF CacheFiles = {} THEN "returned" ELSE "called",
                      NoSeries)
    /\ UNCHANGED <<cache_, lru_list_, max_memory_bytes_, current_memory_bytes_,
                   thread_pool_, disk, cm_pending, now, touched,
                   last_put>>
    /\ UNCHANGED <<cmstats, cmenv>>
    /\ UNCHANGED notcm

\* preload_from_disk: load_from_disk(key) and put(key, *data) for one file;
\* put locks cache_mutex_, which this thread holds: the thread blocks for
\* ever, or lock throws std::system_error, which the catch of the loop
\* swallows before the loop goes on to the next file
PreloadRelock(key) ==
    /\ cm_pc = "preload_put"
    /\ cache_mutex_
    /\ key \in cm_todo
    /\ \/ /\ FromJson(disk[key]) # NoSeries
          /\ cm_pc' = "deadlocked"
          /\ cm_last' = [cm_last EXCEPT !.result = "blocked"]
          /\ UNCHANGED <<cache_mutex_, cm_todo>>
       \/ /\ cm_todo' = cm_todo \ {key}
          /\ cm_pc' = IF cm_todo = {key} THEN "idle" ELSE "preload_put"
          /\ cache_mutex_' = (cm_todo # {key})
          /\ cm_last' = [cm_last EXCEPT
                            !.result = IF cm_todo = {key} THEN "returned"
                                       ELSE "called"]
    /\ UNCHANGED <<cache_, lru_list_, max_memory_bytes_, current_memory_bytes_,
                   thread_pool_, disk, cm_pending, now, touched,
                   last_put>>
    /\ UNCHANGED <<cmstats, cmenv>>
    /\ UNCHANGED notcm

\* the cache object is destroyed once its queued disk writes have run, and
\* a new one is constructed on the same cache_dir_: the in-memory state
\* starts empty and the files stay
CacheRestart ==
    /\ cm_pc = "idle"
    /\ cm_pending = <<>>
    /\ cache_' = [k \in {} |-> NoSeries]
    /\ lru_list_' = <<>>
    /\ current_memory_bytes_' = 0
    /\ cm_last' = Did("", "", NoSeries)
    /\ touched' = <<>>
    /\ last_put' = [k \in {} |-> NoSeries]
    /\ UNCHANGED <<max_memory_bytes_, thread_pool_, cache_mutex_, disk, cm_pc,
                   cm_todo, cm_pending, now>>
    /\ UNCHANGED <<cmstats, cmenv>>
    /\ UNCHANGED notcm

\* CacheManager::~CacheManager: save_cache_metadata (a file that is not one
\* of the <key>.cache files), then the members go; the ThreadPool, which
\* the caller shares, and its queued tasks stay
CacheDestroy ==
    /\ cm_pc = "idle"
    /\ cm_pc' = "destroyed"
    /\ cm_last' = Did("", "", NoSeries)
    /\ UNCHANGED <<cache_, lru_list_, max_memory_bytes_, current_memory_bytes_,
                   thread_pool_, cache_mutex_, disk, cm_todo, cm_pending, now,
                   touched, last_put>>
    /\ UNCHANGED <<cmstats, cmenv>>
    /\ UNCHANGED notcm

\* a worker of the ThreadPool runs a queued disk write: persist_to_disk.
\* With SchedWorkers workers any of the first SchedWorkers queued tasks can
\* be the next to write its file.  The task calls persist_to_disk through
\* the `this` it captured: once the cache is destroyed the call reads
\* cache_dir_ of a dead object, and whether the file gets written is not
\* determined.
PersistToDisk(i) ==
    /\ i \in 1..Len(cm_pending)
    /\ i <= SchedWorkers
    /\ \E written \in IF cm_pc = "destroyed" THEN BOOLEAN ELSE {disk_ok} :
          disk' = IF written
                  THEN [disk EXCEPT ![cm_pending[i].key] = ToJson(cm_pending[i].data)]
                  ELSE disk
    /\ cm_pending' = SubSeq(cm_pending, 1, i - 1)
                        \o SubSeq(cm_pending, i + 1, Len(cm_pending))
    /\ cm_last' = Did("", "", NoSeries)
    /\ UNCHANGED <<cache_, lru_list_, max_memory_bytes_, current_memory_bytes_,
                   thread_pool_, cache_mutex_, cm_pc, cm_todo, now,
                   touched, last_put>>
    /\ UNCHANGED <<cmstats, cmenv>>
    /\ UNCHANGED notcm

\* the steady clock advances by an hour
ClockTick ==
    /\ now < MaxClock
    /\ now' = now + 1
    /\ cm_last' = Did("", "", NoSeries)
    /\ UNCHANGED <<cache_, lru_list_, max_memory_bytes_, current_memory_bytes_,
                   thread_pool_, cache_mutex_, disk, cm_pc, cm_todo,
                   cm_pending, touched, last_put>>
    /\ UNCHANGED <<cmstats, cmenv>>
    /\ UNCHANGED notcm

(***************************************************************************)
(* Specification of the thread pool: a pool of 1..NumWorkers workers, the   *)
(* owning thread and one more submitting thread                            *)
(***************************************************************************)
InitTP ==
    /\ QueueInit(1)
    /\ \E n \in 1..NumWorkers : PoolInit(n)
    /\ MemInit(MPBlockArg, 0)
    /\ CacheInit(FALSE, FALSE, TRUE)

NextTP ==
    \/ \E c \in Clients, th \in BOOLEAN : SubmitCall(c, th)
    \/ \E c \in Clients : SubmitLock(c)
    \/ \E c \in Clients : SubmitCritical(c)
    \/ \E c \in Clients : SubmitNotify(c)
    \/ WaitAllCall
    \/ WaitAllLock
    \/ WaitAllCheck
    \/ \E dtor \in BOOLEAN : ShutdownCall(dtor)
    \/ ShutdownLock
    \/ ShutdownSetStop
    \/ ShutdownNotifyAll
    \/ ShutdownJoin
    \/ ShutdownClear
    \/ \E w \in Workers : WorkerLock(w)
    \/ \E w \in Workers : WorkerWait(w)
    \/ \E w \in Workers : WorkerSpuriousWake(w)
    \/ \E w \in Workers : WorkerWake(w)
    \/ \E w \in Workers : WorkerExit(w)
    \/ \E w \in Workers : WorkerDequeue(w)
    \/ \E w \in Workers : WorkerBegin(w)
    \/ \E w \in Workers : WorkerRun(w)
    \/ \E w \in Workers : WorkerFinish(w)

SpecTP == InitTP /\ [][NextTP]_vars

(***************************************************************************)
(* Specification of the queue: one producer thread, one consumer thread    *)
(***************************************************************************)
InitQ ==
    /\ \E c \in 0..MaxRequested : QueueInit(c)
    /\ PoolInit(NumWorkers)
    /\ MemInit(MPBlockArg, 0)
    /\ CacheInit(FALSE, FALSE, TRUE)

NextQ ==
    \/ PushCall
    \/ PushLoadHead
    \/ PushLoadTail
    \/ PushLoadSeq
    \/ PushCAS
    \/ PushStoreData
    \/ PushStoreSeq
    \/ PopCall
    \/ PopLoadTail
    \/ PopLoadHead
    \/ PopLoadSeq
    \/ PopCAS
    \/ PopLoadData
    \/ PopStoreSeq

SpecQ == InitQ /\ [][NextQ]_vars

(***************************************************************************)
(* Specification of the queue with a thread that calls size, full or       *)
(* empty while the producer and the consumer run                           *)
(***************************************************************************)
NextQO ==
    \/ NextQ
    \/ \E op \in {"size", "full"} : ObserveLoadHead(op)
    \/ ObserveLoadTail
    \/ EmptyLoadTail
    \/ EmptyLoadHead

InitQO ==
    /\ \E c \in 1..MaxObserved : QueueInit(c)
    /\ PoolInit(NumWorkers)
    /\ MemInit(MPBlockArg, 0)
    /\ CacheInit(FALSE, FALSE, TRUE)

SpecQO == InitQO /\ [][NextQO]_vars

(***************************************************************************)
(* Specification of the memory pool: a pool of 0..MaxInitial initial       *)
(* blocks used by the threads of MPThreads                                 *)
(***************************************************************************)
InitMP ==
    /\ QueueInit(1)
    /\ PoolInit(1)
    /\ \E n \in 0..MaxInitial : MemInit(MPBlockArg, n)
    /\ CacheInit(FALSE, FALSE, TRUE)

NextMP ==
    \/ \E t \in MPThreads : MPAllocate(t)
    \/ \E t \in MPThreads, k \in 0..MaxReserve : MPReserve(t, k)
    \/ \E t \in MPThreads, ptr \in PtrValues : MPDeallocate(t, ptr)
    \/ \E t \in MPThreads : MPDeallocCritical(t)

SpecMP == InitMP /\ [][NextMP]_vars

(***************************************************************************)
(* Specification of the memory pool under concurrent calls: a pool of      *)
(* 0..MaxInitial blocks used by the threads of MPCThreads, which only give *)
(* back pointers they hold; taking pool_mutex_ in reserve is a step of its *)
(* own                                                                     *)
(***************************************************************************)
InitMPC ==
    /\ QueueInit(1)
    /\ PoolInit(1)
    /\ \E n \in 0..MaxInitial : MemInitFor(MPCThreads, MPBlockArg, n)
    /\ CacheInit(FALSE, FALSE, TRUE)

NextMPC ==
    \/ \E t \in MPCThreads : MPAllocate(t)
    \/ \E t \in MPCThreads, k \in 0..MaxReserve : ReserveLock(t, k)
    \/ \E t \in MPCThreads : ReserveExpand(t)
    \/ \E t \in MPCThreads, ptr \in outstanding \cup {0} :
          DeallocateValidate(t, ptr)
    \/ \E t \in MPCThreads : MPDeallocCritical(t)

SpecMPC == InitMPC /\ [][NextMPC]_vars

(***************************************************************************)
(* Specification of the cache: a cache of CacheMemoryMb MB, with or        *)
(* without a ThreadPool, called by one thread                              *)
(***************************************************************************)
InitCM ==
    /\ QueueInit(1)
    /\ PoolInit(1)
    /\ MemInit(MPBlockArg, 0)
    /\ \E pool \in BOOLEAN, stopped \in BOOLEAN, writable \in BOOLEAN :
          /\ stopped => pool
          /\ CacheInit(pool, stopped, writable)

NextCM ==
    \/ \E key \in Keys : CacheGet(key)
    \/ \E key \in Keys, series \in Series : CachePut(key, series)
    \/ \E key \in Keys : CacheRemove(key)
    \/ CacheClear
    \/ \E max_age \in 0..MaxClock : CleanupCall(max_age)
    \/ CleanupRelock
    \/ PreloadCall
    \/ \E key \in Keys : PreloadRelock(key)
    \/ CacheRestart
    \/ \E i \in 1..SchedWorkers : PersistToDisk(i)
    \/ ClockTick

SpecCM == InitCM /\ [][NextCM]_vars

\* the calling thread goes on inside cleanup_expired_entries and
\* preload_from_disk, and the workers of the ThreadPool run queued writes
FairnessCM ==
    /\ WF_vars(CleanupRelock)
    /\ WF_vars(\E key \in Keys : PreloadRelock(key))
    /\ WF_vars(\E i \in 1..SchedWorkers : PersistToDisk(i))

FairSpecCM == SpecCM /\ FairnessCM

(***************************************************************************)
(* Specification of the life of a cache object: puts, gets and removes,    *)
(* the queued disk writes, and the destructor                              *)
(***************************************************************************)
NextCMD ==
    \/ \E key \in Keys : CacheGet(key)
    \/ \E key \in Keys, series \in Series : CachePut(key, series)
    \/ \E key \in Keys : CacheRemove(key)
    \/ \E i \in 1..SchedWorkers : PersistToDisk(i)
    \/ CacheDestroy

SpecCMD == InitCM /\ [][NextCMD]_vars

\* s is a prefix of t
IsPrefix(s, t) == Len(s) <= Len(t) /\ \A i \in 1..Len(s) : s[i] = t[i]

\* C1: with one producer and one consumer, under every interleaving of their
\* atomic steps, the values returned by successful try_pop calls are a prefix
\* of the values accepted by successful try_push calls.
C1_PopsArePrefixOfPushes == IsPrefix(popped, pushed)

\* a try_push call has returned and no consumer step overlapped it
PushRanAlone == p_pc = "idle" /\ p_result # "none" /\ p_alone /\ c_pc = "idle"

\* C2: while no try_push has run concurrently with a try_pop, every
\* try_push on a queue that is not full and every try_pop on a queue that is
\* not empty returns true, the pops yield the pushed values in push order,
\* and between calls empty() is true exactly when every pushed value has
\* been popped.
C2_SequentialPushPopSucceed ==
    ~overlapped =>
        /\ (p_pc = "idle" /\ p_result # "none"
               /\ p_snap.head - p_snap.tail < capacity_) => p_result = "ok"
        /\ (c_pc = "idle" /\ c_result # "none"
               /\ c_snap.tail < c_snap.head) => c_result = "ok"
        /\ IsPrefix(popped, pushed)
        /\ (p_pc = "idle" /\ c_pc = "idle")
              => (empty <=> Len(popped) = Len(pushed))

\* C3: a try_push that runs on a queue holding capacity() elements returns
\* false and leaves head, tail, every sequence number and every payload as
\* they were before the call.
C3_FullPushChangesNothing ==
    (PushRanAlone /\ p_snap.head - p_snap.tail >= capacity_)
        => (p_result = "fail" /\ QState = p_snap)

\* a try_push on a full queue has returned, after the indices wrapped around
C3_Witness ==
    /\ PushRanAlone
    /\ p_snap.head - p_snap.tail >= capacity_
    /\ p_result = "fail"
    /\ p_snap.head > capacity_

IsPow2(n) == \E k \in 0..10 : n = 2 ^ k

Max(a, b) == IF a >= b THEN a ELSE b

\* capacity_ is the smallest power of two >= max(requested, 1)
CapacityIsNextPow2 ==
    /\ IsPow2(capacity_)
    /\ capacity_ >= Max(requested, 1)
    /\ \A m \in 1..(capacity_ - 1) : IsPow2(m) => m < Max(requested, 1)

\* C4: capacity() is the smallest power of two >= max(C, 1), it never
\* changes, and while nothing is popped a try_push fails only once
\* capacity() values have been accepted.
C4_CapacityAndExactFill ==
    /\ [](CapacityIsNextPow2)
    /\ [][capacity_' = capacity_]_vars
    /\ []((tail_ = 0 /\ c_pc = "idle") => Len(pushed) <= capacity_)
    /\ []((tail_ = 0 /\ c_pc = "idle" /\ p_pc = "idle" /\ p_result = "fail")
            => Len(pushed) = capacity_)

(***************************************************************************)
(* ThreadPool: properties                                                  *)
(***************************************************************************)
\* task t has been run once and its future holds its own outcome
Completed(t) == executed[t] = 1 /\ future[t] = RunTask(t, throws[t])

\* a thread that holds queue_mutex_ runs on to the end of its critical
\* section, every worker thread keeps being scheduled, and a worker that
\* keeps finding the mutex free eventually takes it
Fairness ==
    /\ WF_vars((\E c \in Clients : SubmitCritical(c))
                 \/ WaitAllCheck \/ ShutdownSetStop)
    /\ \A w \in 1..NumWorkers :
          /\ WF_vars(w \in Workers /\
                       (WorkerWait(w) \/ WorkerExit(w) \/ WorkerDequeue(w)
                        \/ WorkerBegin(w) \/ WorkerRun(w)
                        \/ WorkerFinish(w)))
          /\ SF_vars(w \in Workers /\ (WorkerLock(w) \/ WorkerWake(w)))

FairSpecTP == SpecTP /\ Fairness

\* the thread inside shutdown() keeps being scheduled, and eventually takes
\* queue_mutex_ when it keeps finding it free
FairnessSD ==
    /\ WF_vars(ShutdownNotifyAll \/ ShutdownJoin \/ ShutdownClear)
    /\ SF_vars(ShutdownLock)

FairSpecSD == FairSpecTP /\ FairnessSD

\* C5: every task whose submit returned a handle is eventually run by a
\* worker, and from then on its handle yields the task's own result.
C5_AcceptedTaskCompletes ==
    /\ \A t \in Tasks : Accepted(t) ~> Completed(t)
    /\ [][\A t \in Tasks : Completed(t) => Completed(t)']_vars

\* a task returning 42 has been accepted and run, and its handle yields 42
C5_Witness ==
    \E t \in Tasks : /\ Accepted(t)
                     /\ executed[t] = 1
                     /\ future[t] = [st |-> "value", v |-> 42]

\* task t is neither queued nor held by a worker
NotInPool(t) ==
    /\ \A i \in 1..Len(tasks_) : tasks_[i] # t
    /\ \A w \in Workers : wtask[w] # t

\* C6: once stop_ is set it stays set, every submit that reaches its test of
\* stop_ fails with an error and leaves tasks_ as it was, and the callable of
\* a refused submit is never queued and never run.
C6_SubmitAfterShutdownFails ==
    /\ [][stop_ => stop_']_vars
    /\ [][\A c \in Clients :
            (stop_ /\ cpc[c] = "s_crit" /\ cpc'[c] # "s_crit")
               => /\ cres'[c] = "error"
                  /\ cpc'[c] = "idle"
                  /\ submitted'[ctask[c]] = "rejected"
                  /\ tasks_' = tasks_]_vars
    /\ [](\A t \in Tasks : submitted[t] = "rejected"
                               => (executed[t] = 0 /\ NotInPool(t)))

\* a submit made after shutdown has been refused
C6_Witness ==
    \E c \in Clients, t \in Tasks :
        /\ stop_
        /\ cres[c] = "error"
        /\ cpc[c] = "idle"
        /\ submitted[t] = "rejected"

\* shutdown() has returned to the owning thread
ShutdownReturned == cpc[Owner] = "idle" /\ cres[Owner] = "shutdown"

\* C7: when shutdown() has returned, every accepted task has been run,
\* tasks_ is empty and every worker has left worker_function; and a worker
\* leaves worker_function only when stop_ is set and tasks_ is empty.
C7_ShutdownDrainsAndJoins ==
    /\ [](ShutdownReturned =>
            /\ tasks_ = <<>>
            /\ \A w \in Workers : wpc[w] = "exited"
            /\ \A t \in Tasks : submitted[t] = "accepted" => Completed(t))
    /\ [][\A w \in Workers :
            (wpc[w] # "exited" /\ wpc'[w] = "exited")
               => (stop_ /\ tasks_ = <<>>)]_vars

\* shutdown() has returned after tasks were accepted
C7_Witness ==
    /\ ShutdownReturned
    /\ \A t \in Tasks : submitted[t] = "accepted" /\ executed[t] = 1

\* C8: wait_all() returns only when tasks_ is empty, no task is running and
\* every task accepted before the call has been run.
C8_WaitAllMeansAllRun ==
    [][(cpc[Owner] = "wa_crit" /\ cpc'[Owner] = "idle")
         => /\ tasks_ = <<>>
            /\ \A w \in Workers : wpc[w] # "run"
            /\ \A t \in wa_before : executed[t] >= 1]_vars

\* C9: a task that throws leaves its worker in the loop and touches no other
\* task: a worker that has run a task goes on to the counters, a worker only
\* ever leaves when stop_ is set and tasks_ is empty, no task is run twice,
\* and every ready future holds the outcome of its own task.
C9_FailureStaysInItsHandle ==
    /\ [][\A w \in Workers :
            (wpc[w] = "run" /\ wpc'[w] # "run") => wpc'[w] = "finish"]_vars
    /\ [][\A w \in Workers :
            (wpc[w] # "exited" /\ wpc'[w] = "exited")
               => (wpc[w] = "check" /\ stop_ /\ tasks_ = <<>>)]_vars
    /\ [](\A t \in Tasks :
            /\ executed[t] <= 1
            /\ future[t].st = "exception" =>
                  (throws[t] /\ executed[t] = 1 /\ future[t].v = t)
            /\ future[t].st = "value" =>
                  (~throws[t] /\ executed[t] = 1
                     /\ future[t].v = TaskValue(t)))

\* a task has failed and a task submitted after it has delivered its value
C9_Witness ==
    \E t1, t2 \in Tasks :
        /\ t1 < t2
        /\ future[t1].st = "exception"
        /\ future[t2] = [st |-> "value", v |-> TaskValue(t2)]

\* the part of the pool a shutdown() call may change
PoolState == <<stop_, workers_, joinable, tasks_, cv_waiters, active_tasks_,
               completed_tasks_, wpc, wtask>>

\* the owning thread is inside shutdown()
InShutdown ==
    cpc[Owner] \in {"sd_lock", "sd_crit", "sd_notify", "sd_join"}

\* C10: a shutdown() call made after an earlier one has returned changes
\* nothing in the pool, never has a worker to join, and returns with stop_
\* set, no workers and submit still refusing.
C10_SecondShutdownIsNoOp ==
    /\ [][(sd_calls >= 2 /\ InShutdown) => UNCHANGED PoolState]_vars
    /\ []((sd_calls >= 2 /\ cpc[Owner] = "sd_join") => workers_ = <<>>)
    /\ []((sd_calls >= 2 /\ (InShutdown \/ ShutdownReturned)) =>
            /\ stop_
            /\ SubmitRefuses(stop_)
            /\ workers_ = <<>>
            /\ joinable = {}
            /\ tasks_ = <<>>
            /\ \A w \in Workers : wpc[w] = "exited")

\* a second shutdown() has returned and a later submit has been refused
C10_Witness ==
    /\ sd_calls >= 2
    /\ ShutdownReturned
    /\ \E t \in Tasks : submitted[t] = "rejected"

(***************************************************************************)
(* MemoryPool: claims                                                      *)
(***************************************************************************)
\* the deallocate calls that have passed validation and not yet given their
\* block back
InFlightFrees == {t \in MPThreads : mp_pc[t] = "locked"}

\* a step of allocate: the only step that raises allocated_blocks_
AllocStep == allocated_blocks_' = allocated_blocks_ + 1

\* C11: a pool constructed with n initial blocks starts with total == n,
\* free == n and allocated == 0; as long as deallocate is only given
\* outstanding pointers, allocated_blocks() is the number of outstanding
\* pointers (those of a deallocate that has not finished included),
\* allocated + free == total, and an allocate made while fewer blocks are
\* allocated than exist does not grow the pool.
C11_PoolAccounting ==
    /\ (total_blocks = mp_initial /\ free_blocks = mp_initial
          /\ allocated_blocks = 0)
    /\ [](mp_bad = 0 =>
            /\ allocated_blocks
                  = Cardinality(outstanding) + Cardinality(InFlightFrees)
            /\ free_blocks >= 0
            /\ allocated_blocks + free_blocks = total_blocks)
    /\ [][(mp_bad = 0 /\ AllocStep /\ allocated_blocks_ < total_blocks_)
            => total_blocks_' = total_blocks_]_vars

\* two or more blocks were allocated, all were given back, and the pool has
\* grown by a second chunk on the way
C11_Witness ==
    /\ mp_bad = 0
    /\ Cardinality(ever_returned) >= 2
    /\ outstanding = {}
    /\ InFlightFrees = {}
    /\ allocated_blocks = 0
    /\ Len(chunks_) >= 2

\* a step of deallocate made with a pointer that allocate never returned:
\* the critical section of a call whose pointer passed validation, or a call
\* that returned at the null test or at validation
ForeignFreeStep ==
    \/ \E t \in MPThreads :
          mp_pc[t] = "locked" /\ mp_foreign[t] /\ mp_pc'[t] = "idle"
    \/ /\ mp_bad' # mp_bad
       /\ \A t \in MPThreads : mp_pc'[t] = "idle"

C13_AllocateGrowsWhenEmpty ==
    /\ [](0 \notin ever_returned)
    /\ [][AllocStep =>
            IF free_list_ = 0
            THEN /\ total_blocks_' = total_blocks_ + Max2(1, total_blocks_ \div 2)
                 /\ free_blocks' = Max2(1, total_blocks_ \div 2) - 1
            ELSE total_blocks_' = total_blocks_]_vars

\* a pool of four blocks was exhausted and has grown by two: one of the two
\* is allocated, the other is the only free block
C13_Witness ==
    /\ mp_bad = 0
    /\ Len(chunks_) = 2
    /\ chunks_[2].size = 2 * block_size_
    /\ total_blocks = 6
    /\ allocated_blocks = 5
    /\ free_blocks = 1

(***************************************************************************)
(* CacheManager: claims                                                    *)
(***************************************************************************)
RECURSIVE SumOver(_, _)
\* the sum of size_bytes over the entries of c whose key is in S
SumOver(c, S) ==
    IF S = {} THEN 0
    ELSE LET k == CHOOSE x \in S : TRUE
         IN  c[k].size_bytes + SumOver(c, S \ {k})

\* the sum of size_bytes over all entries of c
SumSizes(c) == SumOver(c, DOMAIN c)

\* the j least recently used keys of a recency order (most recent first)
Oldest(order, j) == {order[i] : i \in (Len(order) - j + 1)..Len(order)}

\* a payload of data_size bytes fits once the j oldest keys are gone
FitsAfter(c, order, mem, data_size, budget, j) ==
    mem - SumOver(c, Oldest(order, j)) + data_size <= budget

\* the least number of oldest keys to remove for data_size bytes to fit, all
\* of them when it never fits
EvictCount(c, order, mem, data_size, budget) ==
    CHOOSE j \in 0..Len(order) :
        /\ FitsAfter(c, order, mem, data_size, budget, j) \/ j = Len(order)
        /\ \A i \in 0..(j - 1) : ~FitsAfter(c, order, mem, data_size, budget, i)

\* C14: a put removes exactly the least recently used entries (by latest
\* get-hit or put), oldest first, and only as many as it takes for
\* current_memory_bytes_ + size to fit the budget; afterwards the cache holds
\* the entries kept plus the new one if it fits, size() counts them and
\* memory_usage() is the sum of their sizes.
C14_StrictLruEviction ==
    [][\A key \in Keys, series \in Series :
          CachePut(key, series) =>
             LET data_size == estimate_memory_usage(series)
                 j == EvictCount(cache_, touched, current_memory_bytes_,
                                 data_size, max_memory_bytes_)
                 kept == DOMAIN cache_ \ Oldest(touched, j)
                 fits == FitsAfter(cache_, touched, current_memory_bytes_,
                                   data_size, max_memory_bytes_, j)
             IN  /\ DOMAIN cache_' = kept \cup (IF fits THEN {key} ELSE {})
                 /\ \A k \in kept \ {key} : cache_'[k] = cache_[k]
                 /\ cm_last'.evicted = j
                 /\ cache_size' = Cardinality(kept \cup (IF fits THEN {key} ELSE {}))
                 /\ memory_usage' = SumSizes(cache_')]_vars

\* a put into a cache of two entries has evicted the older one and kept the
\* other next to the new entry
C14_Witness ==
    /\ cm_last.op = "put"
    /\ cm_last.evicted = 1
    /\ cache_size = 2
    /\ memory_usage > max_memory_bytes_ \div 2

\* C15: current_memory_bytes_ is the sum of size_bytes over the cached
\* entries in every reachable state.
C15_MemoryIsSumOfSizes == memory_usage = SumSizes(cache_)

\* a put has replaced the entry of a cached key by a payload of another size
C15_Witness ==
    /\ cm_last.op = "put"
    /\ cm_last.result = "resized"
    /\ cache_size >= 1

\* C16: lru_list_ holds every cached key exactly once and no other key, so
\* its length is size().
C16_RecencyIsPermutation ==
    /\ Len(lru_list_) = cache_size
    /\ {lru_list_[i] : i \in 1..Len(lru_list_)} = DOMAIN cache_

\* two keys are cached and a third one, evicted earlier, has left its file
C16_Witness ==
    /\ Len(lru_list_) = 2
    /\ \E k \in Keys : k \notin DOMAIN cache_ /\ disk[k] # NoFile
    /\ cm_last.op = "get"
    /\ cm_last.result = "hit"

\* C17: a put whose payload alone exceeds the budget stores no entry for the
\* key, returns without an error, and neither writes nor queues a disk
\* write; afterwards contains(key) is false and get(key) returns nothing.
C17_OversizePutIsDropped ==
    [][\A key \in Keys, series \in Series :
          (CachePut(key, series)
             /\ estimate_memory_usage(series) > max_memory_bytes_)
          => /\ cm_last'.result = "dropped"
             /\ ~contains(key)'
             /\ GetValue(cache_', key) = NoSeries
             /\ disk' = disk
             /\ cm_pending' = cm_pending]_vars

\* an oversize put on a cache of two entries has been dropped
C17_Witness ==
    /\ cm_last.op = "put"
    /\ cm_last.result = "dropped"
    /\ cm_last.evicted = 2

\* C18: get of a cached key returns the payload of the latest put of that
\* key and moves the key to the front of lru_list_, keeping the order of the
\* other keys, the entries and memory_usage(); get of an absent key returns
\* nothing and changes none of them.
C18_GetReturnsLatestAndTouches ==
    [][\A key \in Keys :
          CacheGet(key) =>
             IF key \in DOMAIN cache_
             THEN /\ cm_last'.ret = last_put[key]
                  /\ lru_list_' = <<key>> \o SelectSeq(lru_list_,
                                                        LAMBDA x : x # key)
                  /\ DOMAIN cache_' = DOMAIN cache_
                  /\ memory_usage' = memory_usage
             ELSE /\ cm_last'.ret = NoSeries
                  /\ UNCHANGED <<cache_, lru_list_, current_memory_bytes_>>]_vars

\* a get has hit the older of two cached keys, which is now at the front
C18_Witness ==
    /\ cm_last.op = "get"
    /\ cm_last.result = "hit"
    /\ Len(lru_list_) = 2
    /\ cache_[lru_list_[1]].created < cache_[lru_list_[2]].created
    /\ cm_last.ret = cache_[lru_list_[1]].data

\* C19: cleanup_expired_entries returns, and when it has returned no expired
\* entry is left while every younger entry is still cached, with
\* memory_usage() and lru_list_ adjusted.
C19_CleanupReturnsWithoutExpired ==
    /\ (cm_pc = "cleanup_remove") ~> (cm_pc = "idle")
    /\ [][(cm_pc = "cleanup_remove" /\ cm_pc' = "idle") =>
            /\ DOMAIN cache_' = DOMAIN cache_ \ cm_todo
            /\ \A k \in DOMAIN cache_' : cache_'[k] = cache_[k]
            /\ memory_usage' = SumSizes(cache_')
            /\ lru_list_' = SelectSeq(lru_list_, LAMBDA x : x \notin cm_todo)]_vars
    /\ [][\A max_age \in 0..MaxClock :
            (CleanupCall(max_age) /\ cm_pc' = "idle") =>
               /\ \A k \in DOMAIN cache_ : ~Expired(cache_[k], now, max_age)
               /\ UNCHANGED <<cache_, lru_list_, current_memory_bytes_>>]_vars

\* C20: preload_from_disk returns, and when it has returned on a cache whose
\* directory holds files, a key with a file is cached with the symbol and
\* the point count of its file (the only such key when there is one file),
\* within the budget and with lru_list_ matching the entries.
C20_PreloadRestoresFromDisk ==
    /\ (cm_pc = "preload_put") ~> (cm_pc = "idle")
    /\ [][(cm_pc = "preload_put" /\ cm_pc' = "idle") =>
            /\ \E k \in CacheFiles :
                  /\ k \in DOMAIN cache_'
                  /\ cache_'[k].data = FromJson(disk[k])
            /\ memory_usage' <= max_memory_bytes_
            /\ Len(lru_list_') = Cardinality(DOMAIN cache_')]_vars

\* C21: hit_rate() is 0.0 while no request is recorded, and every get counts
\* as one request, a get that finds its key also as one hit, so that
\* hit_rate() is the number of hits over the number of gets.
C21_HitRateCountsGets ==
    /\ [](total_requests_ = 0 => hit_rate = <<0, 1>>)
    /\ [][\A key \in Keys :
            CacheGet(key) =>
               /\ total_requests_' = total_requests_ + 1
               /\ cache_hits_' = cache_hits_
                                   + (IF key \in DOMAIN cache_ THEN 1 ELSE 0)]_vars

\* C22: remove of a cached key deletes the entry, lowers memory_usage() by
\* the entry's size, takes the key out of lru_list_ and deletes the key's
\* file, and remove of an absent key changes nothing; when the last disk
\* write that was queued before the remove has run, the removed key has no
\* file.
C22_RemoveDeletesEntryAndFile ==
    /\ [][\A key \in Keys :
            CacheRemove(key) =>
               IF key \in DOMAIN cache_
               THEN /\ ~contains(key)'
                    /\ \A k \in DOMAIN cache_' : cache_'[k] = cache_[k]
                    /\ DOMAIN cache_' = DOMAIN cache_ \ {key}
                    /\ memory_usage' = memory_usage - cache_[key].size_bytes
                    /\ lru_list_' = SelectSeq(lru_list_, LAMBDA x : x # key)
                    /\ disk'[key] = NoFile
               ELSE UNCHANGED <<cache_, lru_list_, current_memory_bytes_,
                                disk>>]_vars
    /\ [][\A i \in 1..SchedWorkers :
            (/\ PersistToDisk(i)
             /\ cm_pending[i].stale
             /\ \A j \in 1..Len(cm_pending') :
                   cm_pending'[j].key = cm_pending[i].key
                      => ~cm_pending'[j].stale)
            => disk'[cm_pending[i].key] = NoFile]_vars

\* C23: a put of a payload within the budget whose disk write cannot be made
\* (the file cannot be opened) or cannot be queued (the ThreadPool was shut
\* down) returns without an error, with the entry cached, and leaves the
\* cache ready for the next call.
C23_PutSurvivesPersistenceFailure ==
    [][\A key \in Keys, series \in Series :
          (/\ CachePut(key, series)
           /\ estimate_memory_usage(series) <= max_memory_bytes_
           /\ (~disk_ok \/ sched_stop))
          => /\ ~cm_last'.threw
             /\ contains(key)'
             /\ GetValue(cache_', key) = series
             /\ cm_pc' = "idle"
             /\ ~cache_mutex_']_vars

\* C24: on a cache with a running ThreadPool of SchedWorkers workers and a
\* writable directory, whenever no disk write is queued the file of every
\* cached key holds the payload of the latest put of that key.
C24_MirrorHoldsLatestPut ==
    (thread_pool_ /\ ~sched_stop /\ disk_ok /\ cm_pending = <<>>)
       => \A k \in DOMAIN cache_ : disk[k] = ToJson(last_put[k])

\* C25: when a put of a payload within the budget returns, the key is
\* cached with that payload and is first in lru_list_, whatever has become
\* of the disk write.
C25_PutIsSynchronous ==
    [][\A key \in Keys, series \in Series :
          (/\ CachePut(key, series)
           /\ estimate_memory_usage(series) <= max_memory_bytes_
           /\ ~cm_last'.threw)
          => /\ contains(key)'
             /\ GetValue(cache_', key) = series
             /\ lru_list_'[1] = key
             /\ cm_pc' = "idle"]_vars

\* a put onto a cache of one entry has returned while its disk write is
\* still queued and its file does not exist
C25_Witness ==
    /\ cm_last.op = "put"
    /\ cm_last.result = "stored"
    /\ Len(lru_list_) = 2
    /\ Len(cm_pending) = 1
    /\ cm_pending[1].key = lru_list_[1]
    /\ disk[lru_list_[1]] = NoFile

\* the producer is about to write, and the consumer about to read, the
\* payload of one and the same slot
SameSlotAccess ==
    /\ p_pc = "store_data"
    /\ c_pc = "load_data"
    /\ Masked(p_head, mask_) = Masked(c_tail, mask_)

\* C26: the producer writes the payload of the slot of index i only while
\* the slot's sequence is i, the consumer reads it only while the sequence
\* is i + 1, the consumer then sets the sequence to i + capacity, and the
\* two threads are never at the payload of the same slot together.
C26_SlotHandOff ==
    /\ [](p_pc = "store_data" => seqn[Masked(p_head, mask_)] = p_head)
    /\ [](c_pc = "load_data" => seqn[Masked(c_tail, mask_)] = c_tail + 1)
    /\ [][PopStoreSeq =>
            seqn'[Masked(c_tail, mask_)] = c_tail + capacity_]_vars
    /\ [](~SameSlotAccess)

\* when the current try_pop was called, the slot of tail held an element
\* whose try_push had returned
ReadableAtCall ==
    /\ c_snap.tail < c_snap.head
    /\ c_snap.seqn[Masked(c_snap.tail, mask_)] = c_snap.tail + 1

\* the try_pop of index i has returned (there is none below index 0)
Released(i) ==
    \/ i < 0
    \/ /\ tail_ > i
       /\ ~(c_pc \in {"load_data", "store_seq"} /\ c_tail = i)

\* C27: a try_pop returns false only if, when it was called, the queue was
\* empty or the slot of tail was not marked readable, and it then leaves
\* tail, the sequence numbers and the payloads alone; a try_push of index
\* i + capacity that runs after the try_pop of index i has returned is not
\* turned away by the slot test.
C27_PopFailsOnlyWhenNothingReadable ==
    /\ [][(c_pc # "idle" /\ c_pc' = "idle" /\ c_result' = "fail")
            => /\ ~ReadableAtCall
               /\ tail_' = c_snap.tail
               /\ UNCHANGED <<seqn, data, popped>>]_vars
    /\ [][(p_pc = "load_seq" /\ p_pc' = "idle")
            => ~Released(p_head - capacity_)]_vars

\* C28: head_ and tail_ never decrease, a try_push that returns true has
\* moved head_ by one and a try_pop that returns true has moved tail_ by
\* one, a call that returns false has moved neither, and
\* 0 <= head_ - tail_ <= capacity_ in every state.
C28_CountersAdvanceByOne ==
    /\ [](0 <= head_ - tail_ /\ head_ - tail_ <= capacity_)
    /\ [][head_' >= head_ /\ tail_' >= tail_]_vars
    /\ [][(p_pc # "idle" /\ p_pc' = "idle")
            => head_' = p_snap.head + (IF p_result' = "ok" THEN 1 ELSE 0)]_vars
    /\ [][(c_pc # "idle" /\ c_pc' = "idle")
            => tail_' = c_snap.tail + (IF c_result' = "ok" THEN 1 ELSE 0)]_vars

\* after the indices have gone around the ring, a try_push has been turned
\* away by a full queue and a try_pop has succeeded
C28_Witness ==
    /\ p_pc = "idle"
    /\ c_pc = "idle"
    /\ capacity_ = 2
    /\ head_ - tail_ = capacity_
    /\ tail_ > 0
    /\ p_result = "fail"
    /\ c_result = "ok"

\* ptr lies inside the bytes of a chunk of the pool, at the offset of the
\* data of one of its blocks
InOwnedChunk(ptr) ==
    \E c \in 1..Len(chunks_) :
       /\ ptr >= chunks_[c].start
       /\ ptr < chunks_[c].start + chunks_[c].size
       /\ (ptr - chunks_[c].start) % block_size_ = OffsetofData

\* C29: deallocate goes on to its critical section, and so changes the free
\* list and allocated_blocks(), only with a pointer that lies inside the
\* bytes of one of the pool's chunks at the data offset of a block; with
\* any other pointer it returns having changed nothing.
C29_OnlyChunkPointersAreFreed ==
    /\ [][\A t \in MPThreads :
            (mp_pc[t] = "idle" /\ mp_pc'[t] = "locked")
               => InOwnedChunk(mp_ptr'[t])]_vars
    /\ [][\A t \in MPThreads :
            (mp_pc[t] = "locked" /\ mp_pc'[t] = "idle")
               => InOwnedChunk(mp_ptr[t])]_vars
    /\ [][(\A t \in MPThreads : mp_pc[t] = "idle" /\ mp_pc'[t] = "idle")
            => \/ UNCHANGED <<free_list_, blk_next, allocated_blocks_>>
               \/ AllocStep
               \/ total_blocks_' # total_blocks_
               \/ Len(chunks_') # Len(chunks_)]_vars

\* C30: no thread reads chunks_ and total_blocks_, as the validation of
\* deallocate does, while another thread is inside the expand_pool of an
\* allocate or a reserve.
C30_PoolCallsExcludeEachOther ==
    [][\A t \in MPCThreads, ptr \in outstanding :
          DeallocateValidate(t, ptr) => ~Growing(t)]_vars

\* C31: memory_usage() never exceeds the budget the cache was constructed
\* with, whatever sequence of operations has run, a re-put of a cached key
\* with a larger payload included.
C31_MemoryWithinBudget == memory_usage <= BudgetBytes(CacheMemoryMb)

\* a re-put has replaced the 8000-point payload of a cached key by the
\* 12000-point one
C31_Witness ==
    /\ cm_last.op = "put"
    /\ cm_last.result = "resized"
    /\ cache_[lru_list_[1]].data.points = 12000
    /\ memory_usage = estimate_memory_usage(cache_[lru_list_[1]].data)

\* C32: a put of a key that is cached, with a payload that fits the budget
\* once the size of the key's old entry is discounted, updates the entry in
\* place: the key set is unchanged (no other key is evicted, the key has one
\* entry), memory_usage() changes by the new size minus the old size, and
\* the key is first in the recency order.
C32_RePutUpdatesInPlace ==
    [][\A key \in Keys, series \in Series :
          (/\ CachePut(key, series)
           /\ key \in DOMAIN cache_
           /\ ~cm_last'.threw
           /\ current_memory_bytes_ - cache_[key].size_bytes
                 + estimate_memory_usage(series) <= max_memory_bytes_)
          => /\ DOMAIN cache_' = DOMAIN cache_
             /\ memory_usage' = current_memory_bytes_
                                   - cache_[key].size_bytes
                                   + estimate_memory_usage(series)
             /\ lru_list_'[1] = key
             /\ Len(lru_list_') = Len(lru_list_)]_vars

\* C39: a put whose payload alone exceeds the budget leaves the cache
\* empty: size() and memory_usage() are 0 and the recency order is empty,
\* however many entries were cached before.
C39_OversizePutEmptiesCache ==
    [][\A key \in Keys, series \in Series :
          (CachePut(key, series)
             /\ estimate_memory_usage(series) > max_memory_bytes_)
          => /\ cache_size' = 0
             /\ memory_usage' = 0
             /\ lru_list_' = <<>>]_vars

\* an oversize put has returned after evicting both entries of the cache
C39_Witness ==
    /\ cm_last.op = "put"
    /\ cm_last.result = "dropped"
    /\ cm_last.evicted = 2
    /\ cache_size = 0
    /\ memory_usage = 0
    /\ lru_list_ = <<>>

\* C40: when the destructor of a cache has completed, no disk write that put
\* scheduled for that cache is still queued in the ThreadPool, and none
\* runs afterwards.
C40_NoWriteOutlivesCache ==
    /\ [](cm_pc = "destroyed" => cm_pending = <<>>)
    /\ [][\A i \in 1..SchedWorkers :
             PersistToDisk(i) => cm_pc # "destroyed"]_vars

\* C33: while the producer and the consumer run, size() returns a value in
\* 0..capacity(); full() returns true only if the queue held capacity()
\* elements at some moment between its two loads, for which the head at
\* the second load must be capacity() ahead of the tail at the first; and
\* empty() returns true only if the queue held no element at some moment
\* between its two loads, for which the tail at the second load must have
\* reached the head at the first.
C33_ObserversSeeRealStates ==
    /\ o_ret.op = "size" => o_ret.num \in 0..capacity_
    /\ (o_ret.op = "full" /\ o_ret.yes) => o_ret.met
    /\ (o_ret.op = "empty" /\ o_ret.yes) => o_ret.met

\* the distance between two addresses
Dist(p, q) == IF p >= q THEN p - q ELSE q - p

\* the chunk whose bytes hold the address ptr, 0 when there is none
ChunkOf(ptr) ==
    IF \E c \in 1..Len(chunks_) :
          ptr >= chunks_[c].start /\ ptr < chunks_[c].start + chunks_[c].size
    THEN CHOOSE c \in 1..Len(chunks_) :
            ptr >= chunks_[c].start /\ ptr < chunks_[c].start + chunks_[c].size
    ELSE 0

\* C34: with any of the threads calling allocate, reserve and deallocate of
\* pointers they hold, allocate returns a pointer that is not outstanding,
\* and any two outstanding pointers are at least a block size apart, also
\* when they lie in different chunks.
C34_LiveBlocksDoNotAlias ==
    /\ [](\A p, q \in outstanding : p # q => Dist(p, q) >= block_size_)
    /\ [][\A t \in MPCThreads :
             MPAllocate(t)
                => Cardinality(outstanding') = Cardinality(outstanding) + 1]_vars

\* pointers of both chunks of a grown pool are outstanding while a
\* deallocate of one of the threads is between its validation and its
\* critical section
C34_Witness ==
    /\ Len(chunks_) = 2
    /\ \E p, q \in outstanding : ChunkOf(p) = 1 /\ ChunkOf(q) = 2
    /\ allocated_blocks_ > Cardinality(outstanding)
    /\ \E t \in MPCThreads : mp_pc[t] = "locked"

RECURSIVE FreeChain(_, _, _)
\* the blocks met by walking the free list from p, for fuel steps at most
FreeChain(p, nx, fuel) ==
    IF p = 0 \/ fuel = 0 \/ p \notin DOMAIN nx THEN {}
    ELSE {p} \cup FreeChain(nx[p], nx, fuel - 1)

\* C35: whatever pointers deallocate is called with, a pointer given back
\* twice included, the free list is a finite list without a cycle (the walk
\* of free_blocks ends), no block on it is outstanding, and
\* allocated_blocks() is not below 0.
C35_FreeListStaysSound ==
    /\ free_blocks >= 0
    /\ allocated_blocks >= 0
    /\ \A p \in outstanding :
          p - OffsetofData
             \notin FreeChain(free_list_, blk_next, Cardinality(DOMAIN blk_next))

\* C36: a submit that runs while shutdown() runs is decided in one step
\* under queue_mutex_: it is refused and tasks_ stays as it was, or its
\* task is appended to tasks_; a refused task is never queued nor run, an
\* accepted one has been run when shutdown() returns, and tasks_ is empty
\* once every worker has left worker_function.
C36_RacingSubmitRefusedOrRun ==
    /\ [][\A t \in Tasks :
             (submitted[t] = "calling" /\ submitted'[t] # "calling")
                => \/ submitted'[t] = "rejected" /\ tasks_' = tasks_
                   \/ submitted'[t] = "accepted"
                         /\ tasks_' = Append(tasks_, t)]_vars
    /\ [](\A t \in Tasks :
             submitted[t] = "rejected" => executed[t] = 0 /\ NotInPool(t))
    /\ [](ShutdownReturned
             => \A t \in Tasks : submitted[t] = "accepted" => executed[t] = 1)
    /\ []((\A w \in Workers : wpc[w] = "exited") => tasks_ = <<>>)

\* shutdown() has returned while the submit of the other thread, accepted
\* before stop_ was set, has yet to return; its task has been run
C36_Witness ==
    /\ ShutdownReturned
    /\ cpc["sub"] = "s_notify"
    /\ submitted[ctask["sub"]] = "accepted"
    /\ executed[ctask["sub"]] = 1

\* the number of times task t is in tasks_
TimesQueued(t) == Cardinality({i \in 1..Len(tasks_) : tasks_[i] = t})

\* the workers that hold task t
Holders(t) == {w \in Workers : wtask[w] = t}

\* C37: an accepted task is in tasks_ once or held by one worker, never
\* both, and is run once at most; a worker takes the task at the front of
\* tasks_, which submit extends at the back, so tasks are dequeued in the
\* order of their submission; and the tasks being run are never more than
\* the workers.
C37_EachTaskOneWorkerInOrder ==
    /\ [](\A t \in Tasks :
             /\ TimesQueued(t) + Cardinality(Holders(t)) <= 1
             /\ executed[t] <= 1
             /\ (executed[t] = 1 => TimesQueued(t) = 0))
    /\ [][\A w \in Workers :
             (wtask'[w] # wtask[w] /\ wtask'[w] # 0)
                => (tasks_ # <<>> /\ wtask'[w] = Head(tasks_)
                      /\ tasks_' = Tail(tasks_))]_vars
    /\ [][tasks_' # tasks_
             => \/ tasks_ # <<>> /\ tasks_' = Tail(tasks_)
                \/ \E t \in Tasks : tasks_' = Append(tasks_, t)]_vars
    /\ [](/\ active_tasks_ <= Cardinality(Workers)
          /\ Cardinality({w \in Workers : wpc[w] = "run"}) <= active_tasks_)

\* two workers are running the two tasks, the first submitted with the
\* worker that dequeued first
C37_Witness ==
    /\ Cardinality(Workers) = 2
    /\ \A w \in Workers : wpc[w] = "run"
    /\ active_tasks_ = 2
    /\ wtask[1] # wtask[2]

\* C38: a shutdown() call returns, whatever the workers were doing when it
\* set stop_ and notified, and when it has returned every worker has left
\* worker_function and has been joined.
C38_ShutdownTerminates ==
    /\ InShutdown ~> ShutdownReturned
    /\ [](ShutdownReturned
             => /\ \A w \in Workers : wpc[w] = "exited"
                /\ joinable = {})

\* shutdown() has set stop_ and is about to notify while one worker is
\* blocked on the condition variable and the other is running a task
C38_Witness ==
    /\ cpc[Owner] = "sd_notify"
    /\ \E w \in Workers : w \in cv_waiters /\ wpc[w] = "waiting"
    /\ \E w \in Workers : wpc[w] = "run"

====
